---------------------------- MODULE Spec2Model ----------------------------
(***************************************************************************)
(* Model of the VM-based Luau obfuscator (src/obfuscator.js): tokens ->    *)
(* Parser -> BytecodeBuilder -> serializeProgram (encryptConstantString)   *)
(* -> buildLuaInterpreter, and of the Luau interpreter text it emits       *)
(* (constant decoder, top-level runner, nested-function runner).           *)
(*                                                                         *)
(* Conventions                                                             *)
(*  - a JS/Lua string that is data is a sequence of bytes 0..255;          *)
(*  - a token is a TLA+ string; UNDEF stands for JS undefined;             *)
(*  - a 32-bit unsigned number of the shuffle generator is a little-endian *)
(*    sequence of base-1024 digits, because the generator's product needs  *)
(*    62 bits and is rounded to a 53-bit double both in JS and in Luau;    *)
(*  - a Lua value is a record [t, n, s]; a Lua table used as a stack only  *)
(*    ever holds non-nil values at 1..#t, so it is a sequence.             *)
(***************************************************************************)
EXTENDS Integers, Sequences, FiniteSets, TLC

VARIABLES enc,   \* encryptConstantString / decoder round trip (SpecEnc)
          prs,   \* parser run over a token sequence (SpecParse)
          bld,   \* BytecodeBuilder run over an AST (SpecBuild)
          run,   \* one obfuscateLua call and the execution of its artifact (Spec)
          two,   \* two obfuscateLua calls on the same source (SpecTwo)
          lex,   \* tokenize run over a source string (SpecLex)
          xr,    \* the XOR loader variant: encode and emitted decoder (SpecXor)
          pm,   \* the opcode shuffle and the mapping built from it (SpecPerm)
          fr,   \* ensureTerminator and the joined fragments of the XOR loader (SpecFrag)
          ln,   \* the assembled interpreter text and its single-line form (SpecLine)
          srv,  \* the token store of the file server (SpecServer)
          rot   \* one byte through add/rotate and the emitted inverse helpers (SpecRot)

vars == <<enc, prs, bld, run, two, lex, xr, pm, fr, ln, srv, rot>>

-----------------------------------------------------------------------------
(* Bounds of the model *)

MaxStrLen == 7      \* longest input string of the round-trip specification
MaxTokens == 4      \* longest token sequence given to the parser specification
MaxSteps == 40      \* interpreter steps followed per run
MaxDepth == 2       \* closure frames followed above the top-level runner
MaxNum == 1000      \* largest magnitude of a number the interpreter model represents
MaxSrcLen == 4       \* longest source string given to the tokenizer specification
MaxUnits == 3        \* longest source string of the XOR round-trip specification
MaxTextLen == 16    \* longest string the interpreter model represents

-----------------------------------------------------------------------------
(* Small helpers *)

Min(a, b) == IF a < b THEN a ELSE b
Max(a, b) == IF a > b THEN a ELSE b

RECURSIVE Pow2(_)
Pow2(n) == IF n <= 0 THEN 1 ELSE 2 * Pow2(n - 1)

RECURSIVE BitOr(_, _)
BitOr(a, b) ==
  IF a = 0 THEN b
  ELSE IF b = 0 THEN a
  ELSE (IF (a % 2 = 1) \/ (b % 2 = 1) THEN 1 ELSE 0) + 2 * BitOr(a \div 2, b \div 2)

RECURSIVE BitAnd(_, _)
BitAnd(a, b) ==
  IF a = 0 \/ b = 0 THEN 0
  ELSE (IF (a % 2 = 1) /\ (b % 2 = 1) THEN 1 ELSE 0) + 2 * BitAnd(a \div 2, b \div 2)

\* a ^ b of JS on non-negative numbers below 2^31
RECURSIVE BitXor(_, _)
BitXor(a, b) ==
  IF a = 0 THEN b
  ELSE IF b = 0 THEN a
  ELSE (IF (a % 2) # (b % 2) THEN 1 ELSE 0) + 2 * BitXor(a \div 2, b \div 2)

RECURSIVE SeqSum(_)
SeqSum(s) == IF s = <<>> THEN 0 ELSE Head(s) + SeqSum(Tail(s))

RECURSIVE Flatten(_)
Flatten(ss) == IF ss = <<>> THEN <<>> ELSE Head(ss) \o Flatten(Tail(ss))

Swap(arr, i, j) == [arr EXCEPT ![i] = arr[j], ![j] = arr[i]]

Range(f) == {f[x] : x \in DOMAIN f}

\* all sequences over S of length 0..n
SeqsUpTo(S, n) == UNION {[1..k -> S] : k \in 0..n}

-----------------------------------------------------------------------------
(* Byte helpers of the encoder (JS) and of the emitted decoder (Luau) *)

\* rotl8: ((v << n) | (v >>> (8 - n))) & 0xFF
rotl8(v, n) == BitAnd(BitOr(v * Pow2(n), v \div Pow2(8 - n)), 255)

\* a rotate-right that drops the bits shifted out
fn_shr(v, n) == v \div Pow2(n % 8)

\* emitted fn_rotr: n=n%8; a=floor(v/2^n); b=(v*2^(8-n))%256; (a+b)%256
fn_rotr(v, n) ==
  LET m == n % 8
      a == v \div Pow2(m)
      b == (v * Pow2(8 - m)) % 256
  IN (a + b) % 256

\* emitted fn_sub: r = x - (k%256); if r < 0 then r = r + 256
fn_sub(x, k) ==
  LET r == x - (k % 256)
  IN IF r < 0 THEN r + 256 ELSE r

-----------------------------------------------------------------------------
(* The shuffle generator pr -> (1103515245 * pr + 12345) mod 2^32, computed *)
(* in IEEE doubles: the product and the sum are each rounded to 53          *)
(* significant bits (round half to even) before the reduction.              *)
(* Numbers are little-endian sequences of base-1024 digits.                 *)

RECURSIVE BigCarry(_, _)
BigCarry(ds, c) ==
  IF ds = <<>>
  THEN IF c = 0 THEN <<>> ELSE <<c % 1024>> \o BigCarry(<<>>, c \div 1024)
  ELSE LET v == Head(ds) + c
       IN <<v % 1024>> \o BigCarry(Tail(ds), v \div 1024)

BigDigit(ds, k) == IF k \in 1..Len(ds) THEN ds[k] ELSE 0

BigAdd(x, y) ==
  BigCarry([k \in 1..Max(Len(x), Len(y)) |-> BigDigit(x, k) + BigDigit(y, k)], 0)

BigMul(x, y) ==
  IF x = <<>> \/ y = <<>> THEN <<>>
  ELSE BigCarry([k \in 1..(Len(x) + Len(y) - 1) |->
                   SeqSum([i \in 1..Len(x) |-> x[i] * BigDigit(y, k + 1 - i)])], 0)

RECURSIVE BitLenSmall(_)
BitLenSmall(n) == IF n = 0 THEN 0 ELSE 1 + BitLenSmall(n \div 2)

RECURSIVE BigBitLen(_)
BigBitLen(ds) ==
  IF ds = <<>> THEN 0
  ELSE IF ds[Len(ds)] = 0 THEN BigBitLen(SubSeq(ds, 1, Len(ds) - 1))
  ELSE 10 * (Len(ds) - 1) + BitLenSmall(ds[Len(ds)])

\* the nearest double of a natural below 2^63 (at most 10 low bits are dropped)
RoundDouble(ds) ==
  LET k == BigBitLen(ds) - 53
  IN IF k <= 0 THEN ds
     ELSE LET low    == ds[1]
              rem    == low % Pow2(k)
              half   == Pow2(k - 1)
              qodd   == IF k < 10 THEN (low \div Pow2(k)) % 2 = 1
                                  ELSE BigDigit(ds, 2) % 2 = 1
              up     == rem > half \/ (rem = half /\ qodd)
              low2   == (low - rem) + (IF up THEN Pow2(k) ELSE 0)
          IN BigCarry(<<low2>> \o Tail(ds), 0)

\* reduction modulo 2^32 (JS ">>> 0", Luau "% 4294967296" on a non-negative double)
Low32(ds) ==
  <<BigDigit(ds, 1), BigDigit(ds, 2), BigDigit(ds, 3), BigDigit(ds, 4) % 4>>

RECURSIVE BigModSmall(_, _)
BigModSmall(ds, m) ==
  IF ds = <<>> THEN 0
  ELSE (((BigModSmall(Tail(ds), m) * 1024) % m) + Head(ds)) % m

LcgMul == <<621, 403, 28, 1>>     \* 1103515245
LcgAdd == <<57, 12>>              \* 12345

\* JS: function nxt() { pr = (1103515245 * pr + 12345) >>> 0; return pr; }
nxt(pr) == Low32(RoundDouble(BigAdd(RoundDouble(BigMul(LcgMul, pr)), LcgAdd)))

\* Luau: pr = (1103515245 * pr + 12345) % 4294967296
prng(pr) == Low32(RoundDouble(BigAdd(RoundDouble(BigMul(LcgMul, pr)), LcgAdd)))


-----------------------------------------------------------------------------
(* encryptConstantString (JS).  The random draws of one chunk are a record  *)
(* [u, keyA, keyB, seed]: u is the draw behind randint(6, hi), seed the     *)
(* four random bytes read as an unsigned 32-bit number.  rnd is the         *)
(* sequence of draws, one per chunk, reused cyclically when it is shorter   *)
(* than the chunk list.                                                     *)

\* function toBytes(s): a.push(s.charCodeAt(i) & 0xFF)
toBytes(s) == [i \in 1..Len(s) |-> BitAnd(s[i], 255)]

\* randint(a, b) with the uniform draw u
randint(a, b, u) == a + (u % (b - a + 1))

DrawOf(rnd, k) == rnd[((k - 1) % Len(rnd)) + 1]

\* for (j = arr.length - 1; j > 0; j--) { r = nxt() % (j + 1); swap arr[j], arr[r] }
RECURSIVE shuffleLoop(_, _, _)
shuffleLoop(arr, pr, j) ==
  IF j <= 0 THEN arr
  ELSE LET p2 == nxt(pr)
           r  == BigModSmall(p2, j + 1)
       IN shuffleLoop(Swap(arr, j + 1, r + 1), p2, j - 1)

\* a chunk whose data array lost its last byte
encryptChunkShort(raw, d) ==
  [seed |-> d.seed, a |-> d.keyA, b |-> d.keyB, data |-> SubSeq(raw, 1, Len(raw) - 1)]

\* one chunk: add keyA, rotate left by keyB, shuffle by seed
encryptChunk(raw, d) ==
  LET transformed == [x \in 1..Len(raw) |-> rotl8(BitAnd(raw[x] + d.keyA, 255), d.keyB)]
  IN [seed |-> d.seed, a |-> d.keyA, b |-> d.keyB,
      data |-> shuffleLoop(transformed, d.seed, Len(transformed) - 1)]

\* Math.min(bytes.length - i, randint(6, Math.max(6, Math.min(32, Math.floor(n / 2) || 6))))
chunkLen(n, i, u) ==
  LET h  == n \div 2
      hi == Max(6, Min(32, IF h = 0 THEN 6 ELSE h))
  IN Min(n - i, randint(6, hi, u))

RECURSIVE encryptFrom(_, _, _, _)
encryptFrom(bytes, i, rnd, k) ==
  IF i >= Len(bytes) THEN <<>>
  ELSE LET d   == DrawOf(rnd, k)
           len == chunkLen(Len(bytes), i, d.u)
           raw == SubSeq(bytes, i + 1, i + len)
       IN <<encryptChunk(raw, d)>> \o encryptFrom(bytes, i + len, rnd, k + 1)

encryptConstantString(str, rnd) == encryptFrom(toBytes(str), 0, rnd, 1)

-----------------------------------------------------------------------------
(* The emitted decoder (Luau).  A Lua table indexed by integers is a        *)
(* function whose domain holds the keys that are not nil.  An operation    *)
(* that raises a Lua error yields [ok |-> FALSE].                           *)

\* tmp = t[a]; t[a] = t[b]; t[b] = tmp on a table with missing (nil) keys
TSwap(tbl, a, b) ==
  LET D == DOMAIN tbl
      D2 == (D \ {a, b}) \cup (IF b \in D THEN {a} ELSE {}) \cup (IF a \in D THEN {b} ELSE {})
  IN [x \in D2 |-> IF x = a THEN tbl[b] ELSE IF x = b THEN tbl[a] ELSE tbl[x]]

\* for i = len-1,1,-1 do r = prng() % (i+1); swap idx[i+1], idx[r+1] end
RECURSIVE unshuffleSwaps(_, _, _)
unshuffleSwaps(idx, pr, i) ==
  IF i < 1 THEN idx
  ELSE LET p2  == prng(pr)
           r   == BigModSmall(p2, i + 1)
       IN unshuffleSwaps(TSwap(idx, i + 1, r + 1), p2, i - 1)

\* what a failed and a successful decoding step yield
Raised == [ok |-> FALSE, out |-> <<>>]
Decoded(bytes) == [ok |-> TRUE, out |-> bytes]

\* the largest i with f[i] = k
LastIndexOf(f, k) == CHOOSE i \in DOMAIN f : f[i] = k /\ \A j \in DOMAIN f : f[j] = k => j <= i

\* for i=1,len do out[inv[i]] = arr[i] end; return out   (a nil index raises)
unshufflePlace(arr, inv) ==
  IF \E i \in 1..Len(arr) : i \notin DOMAIN inv THEN Raised
  ELSE Decoded([k \in 1..Len(arr) |-> arr[LastIndexOf(inv, k)]])

\* for i=1,len do inv[perm[i]] = i end   (the last write wins)
unshuffleInverse(arr, perm) ==
  unshufflePlace(arr, [k \in Range(perm) |-> LastIndexOf(perm, k)])

\* for i=1,len do perm[i] = idx[i] + 1 end   (nil + 1 raises)
unshufflePerm(arr, idx) ==
  IF \E i \in 1..Len(arr) : i \notin DOMAIN idx THEN Raised
  ELSE unshuffleInverse(arr, [i \in 1..Len(arr) |-> idx[i] + 1])

\* local function fn_unshuffle(arr, seed); idx starts as "for i=1,len do idx[i-1] = i-1 end"
fn_unshuffle(arr, seed) ==
  unshufflePerm(arr, unshuffleSwaps([k \in 0..(Len(arr) - 1) |-> k], seed, Len(arr) - 1))

\* for j=1,#arr do bytes[#bytes+1] = fn_sub(fn_rotr(arr[j], ch.b), ch.a) end
decodeBytes(ch, u) ==
  IF ~u.ok THEN Raised
  ELSE Decoded([j \in 1..Len(u.out) |-> fn_sub(fn_rotr(u.out[j], ch.b), ch.a)])

\* the body of the loop of fn_buildstr over one chunk
decodeChunk(ch) == decodeBytes(ch, fn_unshuffle(ch.data, ch.seed))

\* the bytes of a chunk followed by the bytes of the chunks after it
joinDecoded(h, t) == IF h.ok /\ t.ok THEN Decoded(h.out \o t.out) ELSE Raised

\* local function fn_buildstr(chunks): the bytes of all chunks in order
RECURSIVE fn_buildstr(_)
fn_buildstr(chunks) ==
  IF chunks = <<>> THEN Decoded(<<>>)
  ELSE joinDecoded(decodeChunk(Head(chunks)), fn_buildstr(Tail(chunks)))

-----------------------------------------------------------------------------
(* Tokens.  tokenize returns strings; the parser classifies a token by     *)
(* regular-expression tests on its text.  The model works over a lexicon:  *)
(* the tests are membership in the lexicon's classes.                      *)

UNDEF == "<undefined>"      \* JS undefined: what peek()/next() return past the end

\* tokens p with /^[A-Za-z_]/.test(p)
IdentTokens ==
  {"local", "function", "for", "while", "do", "end", "return", "true",
   "i", "x", "y", "a", "b", "f", "g", "r", "foo", "print", "globalVar", "done_flag"}

\* tokens p with /^\d/.test(p), and Number(p)
NumberOf == [p \in {"0", "1", "2", "3", "5", "6"} |->
               CASE p = "0" -> 0 [] p = "1" -> 1 [] p = "2" -> 2
                 [] p = "3" -> 3 [] p = "5" -> 5 [] p = "6" -> 6]

\* tokens p that start and end with the same quote, and
\* p.slice(1, -1).replace(/\\n/g,'\n').replace(/\\r/g,'\r') as bytes
StringOf == [p \in {"\"hello\"", "\" \"", "\"world\"", "\"\"", "\"a\""} |->
               CASE p = "\"hello\"" -> <<104, 101, 108, 108, 111>>
                 [] p = "\" \""     -> <<32>>
                 [] p = "\"world\"" -> <<119, 111, 114, 108, 100>>
                 [] p = "\"\""      -> <<>>
                 [] p = "\"a\""     -> <<97>>]

\* the one-character token U+00E9 (e with acute accent): one UTF-16 unit, two UTF-8 bytes;
\* it matches none of the three tests
EAcute == "<U+00E9>"

IsIdentToken(p) == p \in IdentTokens
IsNumberToken(p) == p \in DOMAIN NumberOf
IsStringToken(p) == p \in DOMAIN StringOf

-----------------------------------------------------------------------------
(* Parser.  The position this.i is 0-based.  Every parse operator returns  *)
(* [n: node or nodes, i: the new position, stuck: a loop made an iteration *)
(* that consumed no token (the JS loop would not terminate)].              *)

peek(t, i) == IF i >= 0 /\ i < Len(t) THEN t[i + 1] ELSE UNDEF

\* eat(tok): the position after an optional tok
eat(t, i, tok) == IF peek(t, i) = tok THEN i + 1 ELSE i

PR(n, i, stuck) == [n |-> n, i |-> i, stuck |-> stuck]

NilNode == [type |-> "nil"]
NoopNode == [type |-> "noop"]

RECURSIVE parseExpression(_, _)
RECURSIVE parseConcatLoop(_, _)
RECURSIVE parseAdd(_, _)
RECURSIVE parseAddLoop(_, _)
RECURSIVE parseMul(_, _)
RECURSIVE parseMulLoop(_, _)
RECURSIVE parsePrimary(_, _)
RECURSIVE parseArgs(_, _, _)

\* args.push(e) for e the result of parseExpression() entered at position i
parseArgsPush(t, i, acc, e) ==
  IF e.stuck \/ e.i <= i THEN PR(Append(acc, e.n), e.i, TRUE)
  ELSE parseArgs(t, e.i, Append(acc, e.n))

\* while (peek() !== ')' && peek() !== undefined) { if (peek() === ',') { next(); continue; }
\*   args.push(parseExpression()); }
parseArgs(t, i, acc) ==
  IF peek(t, i) = ")" \/ peek(t, i) = UNDEF THEN PR(acc, i, FALSE)
  ELSE IF peek(t, i) = "," THEN parseArgs(t, i + 1, acc)
  ELSE parseArgsPush(t, i, acc, parseExpression(t, i))

\* this.eat(')'); return e
closeParen(t, e) == PR(e.n, eat(t, e.i, ")"), e.stuck)

\* this.eat(')'); return {type, callee, args}   (a: the result of the argument loop)
callNode(t, type, callee, a) ==
  PR([type |-> type, callee |-> callee, args |-> a.n], eat(t, a.i, ")"), a.stuck)

parsePrimary(t, i) ==
  LET p == peek(t, i)
  IN IF p = UNDEF THEN PR(NilNode, i, FALSE)
     ELSE IF p = "(" THEN closeParen(t, parseExpression(t, i + 1))
     ELSE IF IsNumberToken(p)
       THEN PR([type |-> "number", value |-> NumberOf[p]], i + 1, FALSE)
     ELSE IF IsStringToken(p)
       THEN PR([type |-> "string", value |-> StringOf[p]], i + 1, FALSE)
     ELSE IF IsIdentToken(p)
       THEN IF peek(t, i + 1) = "("
            THEN callNode(t, "call_expr", p, parseArgs(t, i + 2, <<>>))
            ELSE PR([type |-> "ident", name |-> p], i + 1, FALSE)
     ELSE PR(NilNode, i + 1, FALSE)

\* left = {type:'binop', op, left, right}
binopNode(op, l, rr) ==
  PR([type |-> "binop", op |-> op, left |-> l.n, right |-> rr.n], rr.i, l.stuck \/ rr.stuck)

\* while (peek() === '*' || peek() === '/') { op = next(); right = parsePrimary(); ... }
parseMulLoop(t, l) ==
  IF peek(t, l.i) = "*" \/ peek(t, l.i) = "/"
  THEN parseMulLoop(t, binopNode(peek(t, l.i), l, parsePrimary(t, l.i + 1)))
  ELSE l

parseMul(t, i) == parseMulLoop(t, parsePrimary(t, i))

parseAddLoop(t, l) ==
  IF peek(t, l.i) = "+" \/ peek(t, l.i) = "-"
  THEN parseAddLoop(t, binopNode(peek(t, l.i), l, parseMul(t, l.i + 1)))
  ELSE l

parseAdd(t, i) == parseAddLoop(t, parseMul(t, i))

parseConcatLoop(t, l) ==
  IF peek(t, l.i) = ".."
  THEN parseConcatLoop(t, binopNode("..", l, parseAdd(t, l.i + 1)))
  ELSE l

parseConcat(t, i) == parseConcatLoop(t, parseAdd(t, i))

parseExpression(t, i) == parseConcat(t, i)

\* return {type:'return', expr: e}
returnNode(e) == PR([type |-> "return", expr |-> e.n], e.i, e.stuck)

\* return {type:'assign', name: id, expr}
assignNode(id, e) == PR([type |-> "assign", name |-> id, expr |-> e.n], e.i, e.stuck)

\* the token is left where it is
ignoreTokenKept(t, i) == PR(NoopNode, i, FALSE)

\* consume and ignore: this.next(); return {type:'noop'}
ignoreToken(t, i) == PR(NoopNode, i + 1, FALSE)

parseStatement(t, i) ==
  LET p == peek(t, i)
  IN IF p = UNDEF THEN PR(NoopNode, i, FALSE)
     ELSE IF p = "return" THEN returnNode(parseExpression(t, i + 1))
     ELSE IF IsIdentToken(p)
       THEN IF peek(t, i + 1) = "=" THEN assignNode(p, parseExpression(t, i + 2))
            ELSE IF peek(t, i + 1) = "("
            THEN callNode(t, "call", p, parseArgs(t, i + 2, <<>>))
            ELSE PR(NoopNode, i + 1, FALSE)
     ELSE ignoreToken(t, i)

\* while (peek() !== ')' && peek() !== undefined) { tok = next(); if (tok === ',') continue;
\*   params.push(tok); }
RECURSIVE parseParams(_, _, _)
parseParams(t, i, acc) ==
  IF peek(t, i) = ")" \/ peek(t, i) = UNDEF THEN PR(acc, i, FALSE)
  ELSE IF peek(t, i) = "," THEN parseParams(t, i + 1, acc)
  ELSE parseParams(t, i + 1, Append(acc, peek(t, i)))

RECURSIVE parseFunctionBody(_, _, _)

\* fbody.push(st) for st the result of parseStatement() entered at position i
parseFunctionBodyPush(t, i, acc, st) ==
  IF st.stuck \/ st.i <= i THEN PR(Append(acc, st.n), st.i, TRUE)
  ELSE parseFunctionBody(t, st.i, Append(acc, st.n))

\* while (peek() !== 'end' && peek() !== undefined) fbody.push(parseStatement());
parseFunctionBody(t, i, acc) ==
  IF peek(t, i) = "end" \/ peek(t, i) = UNDEF THEN PR(acc, i, FALSE)
  ELSE parseFunctionBodyPush(t, i, acc, parseStatement(t, i))

\* while (peek() && peek() !== 'end') next();
RECURSIVE skipFor(_, _)
skipFor(t, i) ==
  IF peek(t, i) # UNDEF /\ peek(t, i) # "end" THEN skipFor(t, i + 1) ELSE i

\* body.push({type: 'local_assign', name, expr})
localAssignNode(name, e) ==
  PR(<<[type |-> "local_assign", name |-> name, expr |-> e.n]>>, e.i, e.stuck)

\* this.eat('end'); body.push({type:'function', name, params, body: fbody})
functionNode(t, name, params, fb) ==
  PR(<<[type |-> "function", name |-> name, params |-> params, body |-> fb.n]>>,
     eat(t, fb.i, "end"), fb.stuck)

\* this.eat(')'); the body loop; the node   (ps: the result of the parameter loop)
parseFunctionRest(t, name, ps) ==
  functionNode(t, name, ps.n, parseFunctionBody(t, eat(t, ps.i, ")"), <<>>))

\* body.push(this.parseStatement())
statementNode(st) == PR(<<st.n>>, st.i, st.stuck)

\* one iteration of the while loop of parseChunk, entered with this.i < this.t.length;
\* n is the sequence of nodes the iteration pushes on body
parseChunkIter(t, i) ==
  LET p == peek(t, i)
  IN IF p = "local"
       THEN IF peek(t, i + 2) = "="
            THEN localAssignNode(peek(t, i + 1), parseExpression(t, i + 3))
            ELSE PR(<<[type |-> "local_decl", name |-> peek(t, i + 1)]>>, i + 2, FALSE)
     ELSE IF p = "function"
       THEN parseFunctionRest(t, peek(t, i + 1), parseParams(t, eat(t, i + 2, "("), <<>>))
     ELSE IF p = "for"
       THEN PR(<<>>, eat(t, skipFor(t, i + 1), "end"), FALSE)
     ELSE statementNode(parseStatement(t, i))

RECURSIVE parseChunkLoop(_, _, _, _)

\* the state of the loop after the iteration it entered at position i
parseChunkAfter(t, i, body, it) ==
  parseChunkLoop(t, it.i, body \o it.n, it.stuck \/ it.i <= i)

parseChunkLoop(t, i, body, stuck) ==
  IF ~(i < Len(t)) \/ stuck THEN PR([type |-> "chunk", body |-> body], i, stuck)
  ELSE parseChunkAfter(t, i, body, parseChunkIter(t, i))

parseChunk(t) == parseChunkLoop(t, 0, <<>>, FALSE)

-----------------------------------------------------------------------------
(* BytecodeBuilder.  A builder is the record                               *)
(*   [consts, names, code, localSlots, nextLocal, patches];                *)
(* patches is a history of the back-patches of the while lowering (which   *)
(* placeholder was emitted, which position was written, with what).        *)
(* A constant is [k |-> "nil"], [k |-> "num", v], [k |-> "str", v: bytes]  *)
(* or [k |-> "fn", v |-> [consts, names, code]].                           *)

\* const OPC = { PUSHK: 1, ..., JZ: 14, CLOSE: 255 }
OpNames == <<"PUSHK", "GETG", "SETG", "GETL", "SETL", "CALL", "RETURN", "ADD",
             "SUB", "MUL", "DIV", "CONCAT", "JMP", "JZ", "CLOSE">>

OPC == [k \in Range(OpNames) |->
          CASE k = "PUSHK" -> 1 [] k = "GETG" -> 2 [] k = "SETG" -> 3 [] k = "GETL" -> 4
            [] k = "SETL" -> 5 [] k = "CALL" -> 6 [] k = "RETURN" -> 7 [] k = "ADD" -> 8
            [] k = "SUB" -> 9 [] k = "MUL" -> 10 [] k = "DIV" -> 11 [] k = "CONCAT" -> 12
            [] k = "JMP" -> 13 [] k = "JZ" -> 14 [] k = "CLOSE" -> 255]

KNil == [k |-> "nil"]
KNum(n) == [k |-> "num", v |-> n]
KStr(bytes) == [k |-> "str", v |-> bytes]
KFn(rec) == [k |-> "fn", v |-> rec]

\* the number a decimal literal beyond the range of a double converts to (Number(p)); it
\* stands above every number the interpreter model represents
Infinity == MaxNum + 1

\* JSON.stringify(c) as a value: a number that is not finite is written as null, also
\* inside the constant pool of a function record; every other value keeps its own text
RECURSIVE jsonStringify(_)
jsonStringify(c) ==
  CASE c.k = "num" -> IF c.v = Infinity THEN KNil ELSE c
    [] c.k = "fn" ->
         KFn([c.v EXCEPT !.consts = [j \in 1..Len(c.v.consts) |-> jsonStringify(c.v.consts[j])]])
    [] OTHER -> c

\* the texts of two values are the same
SameJson(a, b) == a.k = b.k /\ (a.k = "nil" \/ a.v = b.v)

\* typeof c === 'object' && typeof v === 'object' ? JSON.stringify(c) === JSON.stringify(v)
\*                                                 : c === v
\* (typeof null is 'object')
ConstEq(c, v) ==
  IF c.k \in {"nil", "fn"} /\ v.k \in {"nil", "fn"}
  THEN SameJson(jsonStringify(c), jsonStringify(v))
  ELSE c.k = v.k /\ c.v = v.v

\* function BytecodeBuilder()
NewBuilder ==
  [consts |-> <<>>, names |-> <<>>, code |-> <<>>,
   localSlots |-> <<>>, nextLocal |-> 0, patches |-> <<>>]

\* property names every plain JS object inherits: "name in this.localSlots" holds for them
ObjectProtoProps ==
  {"constructor", "toString", "valueOf", "hasOwnProperty", "isPrototypeOf",
   "propertyIsEnumerable", "toLocaleString", "__proto__"}

\* the operand written when this.localSlots[name] is an inherited function, not a slot
InheritedOperand == 0 - 1

\* localSlots is a sequence of <<name, slot>> pairs, the own properties in insertion order
HasOwnSlot(b, name) == \E k \in 1..Len(b.localSlots) : b.localSlots[k][1] = name

OwnSlot(b, name) ==
  b.localSlots[CHOOSE k \in 1..Len(b.localSlots) : b.localSlots[k][1] = name][2]

\* name in this.localSlots
InLocalSlots(b, name) == HasOwnSlot(b, name) \/ name \in ObjectProtoProps

\* this.localSlots[name], for a name with "name in this.localSlots"
SlotValue(b, name) == IF HasOwnSlot(b, name) THEN OwnSlot(b, name) ELSE InheritedOperand

\* addConst: [b |-> builder, idx |-> index]
addConst(b, v) ==
  IF \E k \in 1..Len(b.consts) : ConstEq(b.consts[k], v)
  THEN [b |-> b,
        idx |-> (CHOOSE k \in 1..Len(b.consts) :
                   ConstEq(b.consts[k], v)
                   /\ \A j \in 1..(k - 1) : ~ConstEq(b.consts[j], v)) - 1]
  ELSE [b |-> [b EXCEPT !.consts = Append(@, v)], idx |-> Len(b.consts)]

\* addName
addName(b, n) ==
  IF \E k \in 1..Len(b.names) : b.names[k] = n
  THEN [b |-> b,
        idx |-> (CHOOSE k \in 1..Len(b.names) :
                   b.names[k] = n /\ \A j \in 1..(k - 1) : b.names[j] # n) - 1]
  ELSE [b |-> [b EXCEPT !.names = Append(@, n)], idx |-> Len(b.names)]

\* emit(...)
emit(b, xs) == [b EXCEPT !.code = @ \o xs]

\* newLocal
newLocal(b, name) ==
  IF InLocalSlots(b, name)
  THEN [b |-> b, idx |-> SlotValue(b, name)]
  ELSE [b |-> [b EXCEPT !.localSlots = Append(@, <<name, b.nextLocal>>),
                        !.nextLocal = @ + 1],
        idx |-> b.nextLocal]

\* this.emit(op, idx) for r the result of addConst or addName
emitWith(r, op) == emit(r.b, <<op, r.idx>>)

RECURSIVE buildFromAst(_, _)
RECURSIVE buildStmts(_, _)
RECURSIVE buildExpr(_, _)
RECURSIVE buildArgs(_, _)

\* for (const s of body) this.buildFromAst(s)
buildStmts(b, body) ==
  IF body = <<>> THEN b ELSE buildStmts(buildFromAst(b, Head(body)), Tail(body))

\* for (const a of args) this.buildExpr(a)
buildArgs(b, args) ==
  IF args = <<>> THEN b ELSE buildArgs(buildExpr(b, Head(args)), Tail(args))

\* child.localSlots[ast.params[i]] = i, in order (a repeated name keeps its last index)
RECURSIVE paramSlots(_, _, _)
paramSlots(ls, params, i) ==
  IF i >= Len(params) THEN ls
  ELSE IF \E k \in 1..Len(ls) : ls[k][1] = params[i + 1]
  THEN paramSlots([k \in 1..Len(ls) |->
                     IF ls[k][1] = params[i + 1] THEN <<params[i + 1], i>> ELSE ls[k]],
                  params, i + 1)
  ELSE paramSlots(Append(ls, <<params[i + 1], i>>), params, i + 1)

\* 'local_assign', after const slot = this.newLocal(ast.name)   (l: its result)
buildLocalAssign(l, expr) == emit(buildExpr(l.b, expr), <<OPC["SETL"], l.idx>>)

\* 'while': this.code[jz + 1] = end, jz the 0-based index of the placeholder
\* (0-based index jz + 1 is position jz + 2 of the sequence)
whilePatch(start, jz, b4) ==
  [b4 EXCEPT !.code = [k \in 1..Max(Len(b4.code), jz + 2) |->
                         IF k = jz + 2 THEN Len(b4.code) ELSE b4.code[k]],
             !.patches = Append(@, [start |-> start, placeholder |-> jz,
                                    written |-> jz + 1, end |-> Len(b4.code)])]

\* 'while', after this.buildExpr(ast.cond)   (b1: the builder then)
whileBody(start, b1, body) ==
  whilePatch(start, Len(b1.code) + 1,
             emit(buildStmts(emit(b1, <<OPC["JZ"], 0>>), body), <<OPC["JMP"], start>>))

\* the 'while' case of buildFromAst
buildWhile(b, ast) == whileBody(Len(b.code), buildExpr(b, ast.cond), ast.body)

\* const fnObj = { consts: child.consts, names: child.names, code: child.code }
fnObjOf(child) == [consts |-> child.consts, names |-> child.names, code |-> child.code]

\* this.emit(OPC.PUSHK, cidx); this.emit(OPC.SETG, nameIdx)   (n: the result of addName)
pushAndSet(cidx, n) == emit(emit(n.b, <<OPC["PUSHK"], cidx>>), <<OPC["SETG"], n.idx>>)

\* 'function', after const cidx = this.addConst(fnObj)   (c: its result)
defineFunction(c, name) == pushAndSet(c.idx, addName(c.b, name))

\* the child builder of the 'function' case, its body built and closed
buildChild(params, body) ==
  emit(emit(buildStmts([NewBuilder EXCEPT !.localSlots = paramSlots(<<>>, params, 0),
                                          !.nextLocal = Len(params)],
                       body),
            <<OPC["RETURN"], 0>>),
       <<OPC["CLOSE"]>>)

\* the 'function' case of buildFromAst
buildFunction(b, ast) ==
  defineFunction(addConst(b, KFn(fnObjOf(buildChild(ast.params, ast.body)))), ast.name)

buildFromAst(b, ast) ==
  CASE ast.type = "chunk" -> emit(buildStmts(b, ast.body), <<OPC["CLOSE"]>>)
    [] ast.type = "local_assign" -> buildLocalAssign(newLocal(b, ast.name), ast.expr)
    [] ast.type = "assign" -> emitWith(addName(buildExpr(b, ast.expr), ast.name), OPC["SETG"])
    [] ast.type = "call" ->
         emit(buildArgs(emitWith(addName(b, ast.callee), OPC["GETG"]), ast.args),
              <<OPC["CALL"], Len(ast.args)>>)
    [] ast.type = "function" -> buildFunction(b, ast)
    [] ast.type = "return" -> emit(buildExpr(b, ast.expr), <<OPC["RETURN"], 1>>)
    [] ast.type = "noop" -> b
    [] ast.type = "while" -> buildWhile(b, ast)
    [] OTHER -> b

\* if (name in this.localSlots) emit(GETL, this.localSlots[name]) else emit(GETG, addName(name))
loadName(b, name) ==
  IF InLocalSlots(b, name)
  THEN emit(b, <<OPC["GETL"], SlotValue(b, name)>>)
  ELSE emitWith(addName(b, name), OPC["GETG"])

\* the opcode of a binary operator; an operator that is none of the five is ADD
binopOpcode(op) ==
  CASE op = "+" -> OPC["ADD"]
    [] op = "-" -> OPC["SUB"]
    [] op = "*" -> OPC["MUL"]
    [] op = "/" -> OPC["DIV"]
    [] op = ".." -> OPC["CONCAT"]
    [] OTHER -> OPC["ADD"]

buildExpr(b, expr) ==
  CASE expr.type = "number" -> emitWith(addConst(b, KNum(expr.value)), OPC["PUSHK"])
    [] expr.type = "string" -> emitWith(addConst(b, KStr(expr.value)), OPC["PUSHK"])
    [] expr.type = "ident" -> loadName(b, expr.name)
    [] expr.type = "call_expr" ->
         emit(buildArgs(loadName(b, expr.callee), expr.args), <<OPC["CALL"], Len(expr.args)>>)
    [] expr.type = "binop" ->
         emit(buildExpr(buildExpr(b, expr.left), expr.right), <<binopOpcode(expr.op)>>)
    [] OTHER -> emitWith(addConst(b, KNil), OPC["PUSHK"])

-----------------------------------------------------------------------------
(* serializeProgram: the PROGRAM table of the artifact.  A serialized      *)
(* constant is [k |-> "nil"], [k |-> "num", v], [k |-> "enc", v: chunks]   *)
(* or [k |-> "fn", v |-> [consts, names, code]].                           *)

\* String(n): the text of a name; a name that is undefined becomes "undefined"
nameText(n) == IF n = UNDEF THEN "undefined" ELSE n

\* the inner map over c.consts of a nested function object
serializeNestedConst(nc, rnd) ==
  CASE nc.k = "nil" -> KNil
    [] nc.k = "num" -> nc
    [] nc.k = "str" -> [k |-> "enc", v |-> encryptConstantString(nc.v, rnd)]
    [] OTHER -> KNil

\* the outer map over builder.consts
serializeConst(c, rnd) ==
  CASE c.k = "nil" -> KNil
    [] c.k = "num" -> c
    [] c.k = "str" -> [k |-> "enc", v |-> encryptConstantString(c.v, rnd)]
    [] c.k = "fn" ->
         [k |-> "fn",
          v |-> [consts |-> [j \in 1..Len(c.v.consts) |->
                               serializeNestedConst(c.v.consts[j], rnd)],
                 names  |-> [j \in 1..Len(c.v.names) |-> nameText(c.v.names[j])],
                 code   |-> c.v.code]]
    [] OTHER -> KNil

\* a serializer that appends a padding instruction when the first key drawn is odd
serializeProgramPadded(builder, permutedOps, rnd) ==
  [ops    |-> permutedOps,
   consts |-> [j \in 1..Len(builder.consts) |-> serializeConst(builder.consts[j], rnd)],
   names  |-> [j \in 1..Len(builder.names) |-> nameText(builder.names[j])],
   code   |-> builder.code \o [j \in 1..(DrawOf(rnd, 1).keyA % 2) |-> OPC["CLOSE"]]]

serializeProgram(builder, permutedOps, rnd) ==
  [ops    |-> permutedOps,
   consts |-> [j \in 1..Len(builder.consts) |-> serializeConst(builder.consts[j], rnd)],
   names  |-> [j \in 1..Len(builder.names) |-> nameText(builder.names[j])],
   code   |-> builder.code]

-----------------------------------------------------------------------------
(* Opcode permutation: keys.forEach((k, i) => mapping[k] = shuffled[i]),    *)
(* shuffled a rearrangement of Object.values(OPC).  The model draws the     *)
(* rearrangement from the identity and the exchanges of two values.         *)

IdentityPerm == OPC

ExchangePerm(a, b) == [k \in DOMAIN OPC |-> IF k = a THEN OPC[b] ELSE IF k = b THEN OPC[a] ELSE OPC[k]]

\* two exchanges at once (a, b, c, d distinct)
DoubleExchangePerm(a, b, c, d) ==
  [k \in DOMAIN OPC |->
     CASE k = a -> OPC[b] [] k = b -> OPC[a] [] k = c -> OPC[d] [] k = d -> OPC[c]
       [] OTHER -> OPC[k]]

Perms ==
  {IdentityPerm} \cup {ExchangePerm(a, b) : a, b \in DOMAIN OPC}
  \cup {DoubleExchangePerm("RETURN", "SUB", "CLOSE", "MUL")}

-----------------------------------------------------------------------------
(* buildLuaInterpreter: the artifact is the program table, the OPS table of *)
(* the interpreter text, and the size of the text.  The text itself is not  *)
(* modelled: its length is the length of the program text (an input, it     *)
(* depends on the digits of the random values) plus the fixed length of the *)
(* interpreter text; extra is the number of bytes by which the UTF-8        *)
(* encoding exceeds the UTF-16 length (non-ASCII characters in names).      *)

\* Buffer.byteLength(n, 'utf8') - n.length for a name of the lexicon
utf8Extra(n) == IF n = EAcute THEN 1 ELSE 0

namesExtra(names) == SeqSum([j \in 1..Len(names) |-> utf8Extra(names[j])])

constExtra(c) == IF c.k = "fn" THEN namesExtra(c.v.names) ELSE 0

\* the same for the whole text: only names are written as they are
textExtra(program) ==
  namesExtra(program.names)
  + SeqSum([j \in 1..Len(program.consts) |-> constExtra(program.consts[j])])

DEFAULT_TARGET == 102400
InterpreterTextLen == 7165
PadLen == 22

\* while (Buffer.byteLength(out) < targetSize) out += <PadLen characters>
padLoop(units, extra, target) ==
  IF units + extra >= target THEN units
  ELSE units + PadLen * (((target - (units + extra)) + (PadLen - 1)) \div PadLen)

\* out.slice(0, targetSize): a negative end counts from the end of the string
jsSlice0(units, n) ==
  IF n >= 0 THEN Min(units, n) ELSE Max(units + n, 0)

\* the padding stage; target is [k |-> "num", n] or [k |-> "str"] (a non-numeric string
\* compares false with every number, so it neither pads nor cuts)
trim(padded, extra, n) ==
  IF padded + extra > n THEN jsSlice0(padded, n) ELSE padded

padAndTrim(units, extra, target) ==
  IF target.k # "num" THEN units
  ELSE trim(padLoop(units, extra, target.n), extra, target.n)

\* the artifact whose text has `units` UTF-16 units after padding and cutting
artifactOf(program, permMap, content, units, extra, oneSided) ==
  [program  |-> program,
   OPS      |-> permMap,
   content  |-> content,
   extra    |-> extra,
   units    |-> units,
   bytes    |-> units + extra,
   oneSided |-> oneSided]

buildLuaInterpreter(program, permMap, plen, target, oneSided) ==
  artifactOf(program, permMap, plen + InterpreterTextLen,
             padAndTrim(plen + InterpreterTextLen, textExtra(program), target),
             textExtra(program), oneSided)

-----------------------------------------------------------------------------
(* obfuscateLua (src/obfuscator.js).  source is [isString, tokens]: the     *)
(* tokens are what tokenize returns for a string source.  opts is           *)
(* [targetSizeBytes, oneSided] with targetSizeBytes one of [k |-> "undef"], *)
(* [k |-> "num", n], [k |-> "str"].                                         *)

TUndef == [k |-> "undef", n |-> 0]
TNum(n) == [k |-> "num", n |-> n]
TStr == [k |-> "str", n |-> 0]

\* opts.targetSizeBytes || DEFAULT_TARGET
targetOrDefault(tsb) ==
  IF tsb.k = "undef" \/ (tsb.k = "num" /\ tsb.n = 0) THEN TNum(DEFAULT_TARGET) ELSE tsb

NoArtifact ==
  [program |-> [ops |-> IdentityPerm, consts |-> <<>>, names |-> <<>>, code |-> <<>>],
   OPS |-> IdentityPerm, content |-> 0, extra |-> 0, units |-> 0, bytes |-> 0,
   oneSided |-> FALSE]

\* obfuscateLua from "permute ops" on: builder is the builder after buildFromAst(ast),
\* permMap the mapping drawn
obfuscateBuilt(builder, opts, permMap, rnd, plen) ==
  [threw    |-> FALSE,
   builder  |-> builder,
   permMap  |-> permMap,
   artifact |-> buildLuaInterpreter(serializeProgram(builder, permMap, rnd), permMap,
                                    plen, targetOrDefault(opts.targetSizeBytes),
                                    opts.oneSided)]

\* the result of the call: [threw, builder, permMap, artifact]
obfuscateLua(source, opts, perm, rnd, plen) ==
  IF ~source.isString
  THEN [threw |-> TRUE, builder |-> NewBuilder, permMap |-> IdentityPerm,
        artifact |-> NoArtifact]
  ELSE obfuscateBuilt(buildFromAst(NewBuilder, parseChunk(source.tokens).n),
                      opts, perm, rnd, plen)

\* obfuscateLua of the XOR loader variant: its validation of the arguments
MinTarget == 128

xorObfuscateThrows(source, opts) ==
  LET target == targetOrDefault(opts.targetSizeBytes)
  IN ~source.isString \/ target.k # "num" \/ target.n < MinTarget

-----------------------------------------------------------------------------
(* Luau values of the interpreter.  A value is [t, n, s]:                  *)
(*   nil; num (an integer n); str (bytes s); closure (n: the index in the  *)
(*   decoded top-level constant table of the function record it runs);     *)
(*   native (a function of the host, n its identity); bool.                *)
(* Numbers outside -MaxNum..MaxNum, non-integer quotients and the text of  *)
(* tostring(function) are not represented: a step that would produce one   *)
(* is not followed.                                                        *)

VNil == [t |-> "nil", n |-> 0, s |-> <<>>]
VNum(n) == [t |-> "num", n |-> n, s |-> <<>>]
VStr(bytes) == [t |-> "str", n |-> 0, s |-> bytes]
VClosure(k) == [t |-> "closure", n |-> k, s |-> <<>>]
VNative(id) == [t |-> "native", n |-> id, s |-> <<>>]
VTrue == [t |-> "bool", n |-> 1, s |-> <<>>]

\* _G at the start of the artifact: the recording stand-in for print
PrintFn == VNative(1)
InitialGlobals == [nm \in {"print"} |-> PrintFn]

\* local function push(v) stack[#stack+1] = v end: storing nil leaves the table as it is
push(st, v) == IF v.t = "nil" THEN st ELSE Append(st, v)

\* local function pop(): the value returned, and the stack left
popValue(st) == IF st = <<>> THEN VNil ELSE st[Len(st)]
popRest(st) == IF st = <<>> THEN <<>> ELSE SubSeq(st, 1, Len(st) - 1)

RECURSIVE popRestN(_, _)
popRestN(st, n) == IF n <= 0 THEN st ELSE popRestN(popRest(st), n - 1)

\* for i=1,nargs do args[nargs-i+1] = pop() end: a table with keys 1..nargs, nil where
\* the stack ran out (VNil marks a missing key)
popArgs(st, nargs) ==
  LET k == Min(Max(nargs, 0), Len(st))
      n == Max(nargs, 0)
  IN [i \in 1..n |-> IF i <= n - k THEN VNil ELSE st[Len(st) - n + i]]

\* the borders of a table with keys 1..Len(tbl), some of them nil: the values "#tbl" may
\* take (Lua: any n with (n = 0 or t[n] ~= nil) and t[n+1] == nil)
IsNilEntry(e) == IF "t" \in DOMAIN e THEN e.t = "nil" ELSE e.k = "nil"

Borders(tbl) ==
  {n \in 0..Len(tbl) : (n = 0 \/ ~IsNilEntry(tbl[n]))
                       /\ (n = Len(tbl) \/ IsNilEntry(tbl[n + 1]))}

\* _G[name] read and write
getGlobal(G, nm) == IF nm \in DOMAIN G THEN G[nm] ELSE VNil

setGlobal(G, nm, v) ==
  IF v.t = "nil" THEN [x \in (DOMAIN G) \ {nm} |-> G[x]]
  ELSE [x \in (DOMAIN G) \cup {nm} |-> IF x = nm THEN v ELSE G[x]]

\* locals[slot+1] read and write (locals is a function on the keys that are not nil)
getLocal(L, k) == IF k \in DOMAIN L THEN L[k] ELSE VNil

setLocal(L, k, v) ==
  IF v.t = "nil" THEN [x \in (DOMAIN L) \ {k} |-> L[x]]
  ELSE [x \in (DOMAIN L) \cup {k} |-> IF x = k THEN v ELSE L[x]]

\* decimal digits of a natural number, as bytes
RECURSIVE Digits(_)
Digits(n) == IF n < 10 THEN <<48 + n>> ELSE Digits(n \div 10) \o <<48 + (n % 10)>>

\* tostring(v) for the values whose text is represented
CanToString(v) == v.t \in {"nil", "num", "str"}

luaToString(v) ==
  CASE v.t = "nil" -> <<110, 105, 108>>
    [] v.t = "num" -> IF v.n < 0 THEN <<45>> \o Digits(0 - v.n) ELSE Digits(v.n)
    [] OTHER -> v.s

\* the number a string converts to in arithmetic: decimal digits with an optional sign
RECURSIVE DigitsValue(_)
DigitsValue(bytes) ==
  IF bytes = <<>> THEN 0
  ELSE 10 * DigitsValue(SubSeq(bytes, 1, Len(bytes) - 1)) + (bytes[Len(bytes)] - 48)

IsDigits(bytes) == bytes # <<>> /\ \A i \in 1..Len(bytes) : bytes[i] \in 48..57

\* rep is FALSE when the number has more digits than MaxNum
luaToNumber(v) ==
  CASE v.t = "num" -> [ok |-> TRUE, rep |-> TRUE, n |-> v.n]
    [] v.t = "str" /\ IsDigits(v.s) ->
         IF Len(v.s) <= Len(Digits(MaxNum))
         THEN [ok |-> TRUE, rep |-> TRUE, n |-> DigitsValue(v.s)]
         ELSE [ok |-> TRUE, rep |-> FALSE, n |-> 0]
    [] v.t = "str" /\ v.s # <<>> /\ v.s[1] = 45 /\ IsDigits(Tail(v.s)) ->
         IF Len(v.s) - 1 <= Len(Digits(MaxNum))
         THEN [ok |-> TRUE, rep |-> TRUE, n |-> 0 - DigitsValue(Tail(v.s))]
         ELSE [ok |-> TRUE, rep |-> FALSE, n |-> 0]
    [] OTHER -> [ok |-> FALSE, rep |-> TRUE, n |-> 0]

Abs(n) == IF n < 0 THEN 0 - n ELSE n

\* a op b for "+", "-", "*", "/": err when Luau raises (an operand is no number),
\* rep when the result is a represented number
luaArith(op, a, b) ==
  LET x == luaToNumber(a)
      y == luaToNumber(b)
  IN IF ~x.ok \/ ~y.ok THEN [err |-> TRUE, rep |-> TRUE, v |-> VNil]
     ELSE IF ~x.rep \/ ~y.rep THEN [err |-> FALSE, rep |-> FALSE, v |-> VNil]
     ELSE IF op = "/"
       THEN IF y.n = 0 \/ (Abs(x.n) % Abs(y.n)) # 0
            THEN [err |-> FALSE, rep |-> FALSE, v |-> VNil]
            ELSE [err |-> FALSE, rep |-> TRUE,
                  v |-> VNum((IF (x.n < 0) = (y.n < 0) THEN 1 ELSE 0 - 1)
                             * (Abs(x.n) \div Abs(y.n)))]
     ELSE LET r == CASE op = "+" -> x.n + y.n
                     [] op = "-" -> x.n - y.n
                     [] OTHER    -> x.n * y.n
          IN [err |-> FALSE, rep |-> Abs(r) <= MaxNum, v |-> VNum(r)]

\* tostring(a)..tostring(b)
luaConcat(a, b) ==
  [err |-> FALSE, rep |-> CanToString(a) /\ CanToString(b),
   v |-> VStr(luaToString(a) \o luaToString(b))]

\* code[ip] for a 1-based ip: ok is FALSE when it reads nil
fetch(code, ip) ==
  IF ip \in 1..Len(code) THEN [ok |-> TRUE, v |-> code[ip]] ELSE [ok |-> FALSE, v |-> 0]

\* a runtime constant as the value PUSHK pushes (k its 1-based index)
constValue(c, k) ==
  CASE c.k = "num" -> VNum(c.v)
    [] c.k = "str" -> VStr(c.v)
    [] c.k = "fn"  -> VClosure(k)
    [] OTHER -> VNil

tableGet(tbl, k) == IF k \in 1..Len(tbl) THEN tbl[k] ELSE KNil

-----------------------------------------------------------------------------
(* Spec: one call of obfuscateLua, then the artifact executed by the host. *)
(*                                                                         *)
(* run.phase: "idle" (inputs chosen) -> "threw" | "artifact" ->            *)
(*   "norun" (the text does not compile, or all of it is a comment)        *)
(*   | "loaderror" (the constant decoder raised at the top of the chunk)   *)
(*   | "running" -> "finished" (fn_run returned) | "aborted" (an error     *)
(*   left fn_run and was swallowed by the final pcall).                    *)
(* run.frames: the frames of the interpreter, the top-level runner first,  *)
(*   then one frame per closure being run.  run.rc and run.prog are the    *)
(*   globals RCONST and PROGRAM: 0 for the top-level tables, k for the     *)
(*   tables of the function record at index k.  run.ev describes the last  *)
(*   interpreter step.                                                     *)

SetMin(S) == CHOOSE x \in S : \A y \in S : x <= y
SetMax(S) == CHOOSE x \in S : \A y \in S : x >= y
PickBorder(tbl, pol) == IF pol = "min" THEN SetMin(Borders(tbl)) ELSE SetMax(Borders(tbl))

\* RCONST[i] = fn_buildstr(c.chunks) for a string record, c itself otherwise
decodedString(d) == [ok |-> d.ok, c |-> KStr(d.out)]

decodeEntry(e) ==
  IF e.k = "enc" THEN decodedString(fn_buildstr(e.v)) ELSE [ok |-> TRUE, c |-> e]

\* nested = { consts = {}, names = c.names, code = c.code } with consts decoded up to
\* #c.consts; the closure later reads it up to #child.consts
nestedRecord(rec, dec, b2) ==
  [ok |-> \A j \in DOMAIN dec : dec[j].ok,
   c  |-> KFn([consts |-> [j \in 1..b2 |-> dec[j].c],
               names |-> rec.names, code |-> rec.code])]

nestedDecoded(rec, dec, pol) ==
  nestedRecord(rec, dec, PickBorder([j \in DOMAIN dec |-> dec[j].c], pol))

decodeNestedUpTo(rec, b1, pol) ==
  nestedDecoded(rec, [j \in 1..b1 |-> decodeEntry(rec.consts[j])], pol)

decodeNested(rec, pol) == decodeNestedUpTo(rec, PickBorder(rec.consts, pol), pol)

\* the loop "for i=1,#PROGRAM.consts" with #PROGRAM.consts = b
decodedTable(dec) ==
  [ok |-> \A i \in DOMAIN dec : dec[i].ok, tbl |-> [i \in DOMAIN dec |-> dec[i].c]]

decodeConsts(prog, b, pol) ==
  decodedTable([i \in 1..b |->
                  IF prog.consts[i].k = "fn" THEN decodeNested(prog.consts[i].v, pol)
                  ELSE decodeEntry(prog.consts[i])])

\* the artifact text compiles and its statements are not inside a comment
CodeIsNumeric(code) == \A i \in 1..Len(code) : code[i] # InheritedOperand

Runnable(a) ==
  /\ ~a.oneSided
  /\ a.units >= a.content - 1
  /\ (a.units > a.content => (a.units - a.content) % PadLen \in {0, 1})
  /\ CodeIsNumeric(a.program.code)
  /\ \A i \in 1..Len(a.program.consts) :
        a.program.consts[i].k = "fn" => CodeIsNumeric(a.program.consts[i].v.code)

\* call: how a CALL went ("none" for a step that completes no CALL):
\*   "entered" a closure, "native" function returned, "notfunction", "returned" from a
\*   closure, "raised" in a closure; under: the caller's stack below the callee
NoEvent == [op |-> "none", kind |-> "none", call |-> "none", callee |-> VNil, args |-> <<>>,
            under |-> <<>>, result |-> VNil]

TopFrame ==
  [kind |-> "top", child |-> 0, ip |-> 1, stack |-> <<>>, locals |-> <<>>,
   savedRC |-> 0, savedPROG |-> 0]

NestedFrame(k, rc, prog) ==
  [kind |-> "nested", child |-> k, ip |-> 1, stack |-> <<>>, locals |-> <<>>,
   savedRC |-> rc, savedPROG |-> prog]

IdleRun(source, opts, perm, rnd, plen) ==
  [phase |-> "idle", source |-> source, opts |-> opts, perm |-> perm, rnd |-> rnd,
   plen |-> plen, xorThrew |-> FALSE,
   builder |-> NewBuilder, artifact |-> NoArtifact, permuteOps |-> <<>>,
   topRC |-> <<>>, rc |-> 0, prog |-> 0, frames |-> <<>>,
   G |-> InitialGlobals, calls |-> <<>>, steps |-> 0, ev |-> NoEvent]

\* ---- the call ----
\* the state after the call returned or threw (res: the result of obfuscateLua)
Called(res) ==
  run' = [run EXCEPT !.phase = IF res.threw THEN "threw" ELSE "artifact",
                     \* what the XOR loader variant does with the same arguments
                     !.xorThrew = xorObfuscateThrows(run.source, run.opts),
                     !.builder = res.builder,
                     !.artifact = res.artifact,
                     \* permuteOps = ... assigns an undeclared (global) variable
                     !.permuteOps = IF res.threw THEN @ ELSE res.permMap]

Obfuscate ==
  /\ run.phase = "idle"
  /\ Called(obfuscateLua(run.source, run.opts, run.perm, run.rnd, run.plen))
  /\ UNCHANGED <<enc, prs, bld, two, lex, xr, pm, fr, ln, srv, rot>>

\* ---- the artifact starts: PROGRAM = {...}, helpers, decoding of the constants ----
\* the state after the decoding loop (d: its result); pcall(fn_run) starts the runner
Loaded(d) ==
  IF ~d.ok
  THEN run' = [run EXCEPT !.phase = "loaderror"]
  ELSE run' = [run EXCEPT !.phase = "running", !.topRC = d.tbl, !.frames = <<TopFrame>>]

Load ==
  /\ run.phase = "artifact"
  /\ IF ~Runnable(run.artifact)
     THEN run' = [run EXCEPT !.phase = "norun"]
     ELSE \E b \in Borders(run.artifact.program.consts), pol \in {"min", "max"} :
            Loaded(decodeConsts(run.artifact.program, b, pol))
  /\ UNCHANGED <<enc, prs, bld, two, lex, xr, pm, fr, ln, srv, rot>>

\* ---- interpreter state ----
F == run.frames[Len(run.frames)]
OPS == run.artifact.OPS
TopCode == run.artifact.program.code
TopNames == run.artifact.program.names
ChildRec(k) == run.topRC[k].v
CurRC == IF run.rc = 0 THEN run.topRC ELSE ChildRec(run.rc).consts

NameAt(names, k) == IF k \in 1..Len(names) THEN names[k] ELSE UNDEF

Running(kind) ==
  /\ run.phase = "running"
  /\ run.steps < MaxSteps
  /\ F.kind = kind

\* the opcode the dispatch loop of the current frame reads, when the loop condition holds
TopOp(name) ==
  /\ Running("top")
  /\ F.ip >= 1 /\ F.ip <= Len(TopCode)
  /\ TopCode[F.ip] = OPS[name]

Ev(op, kind) == [NoEvent EXCEPT !.op = op, !.kind = kind]

\* the current frame replaced by f
Continue(f, ev) ==
  run' = [run EXCEPT !.frames[Len(run.frames)] = f, !.steps = @ + 1, !.ev = ev]

\* an error raised in the top-level runner leaves fn_run; pcall(fn_run) swallows it
Abort(ev) == run' = [run EXCEPT !.phase = "aborted", !.steps = @ + 1, !.ev = ev]

\* fn_run ends (break, return, or the loop condition fails)
Finish(f, ev) ==
  run' = [run EXCEPT !.frames[Len(run.frames)] = f, !.phase = "finished",
                     !.steps = @ + 1, !.ev = ev]

\* an error raised in a closure reaches the pcall of the calling frame's CALL:
\* the caller pushes nil; PROGRAM and RCONST keep the values the closure gave them
Unwind(ev) ==
  run' = [run EXCEPT !.frames = SubSeq(@, 1, Len(@) - 1), !.steps = @ + 1,
                     !.ev = [ev EXCEPT !.call = "raised",
                                       !.under = run.frames[Len(run.frames) - 1].stack]]

\* a closure returns res: PROGRAM and RCONST are restored and the caller pushes res
Return(res, ev) ==
  LET n      == Len(run.frames)
      caller == run.frames[n - 1]
  IN run' = [run EXCEPT !.frames = Append(SubSeq(@, 1, n - 2),
                                          [caller EXCEPT !.stack = push(@, res)]),
                        !.rc = F.savedRC, !.prog = F.savedPROG,
                        !.steps = @ + 1,
                        !.ev = [ev EXCEPT !.call = "returned", !.result = res,
                                          !.under = caller.stack]]

\* CALL in either runner, after the operand was read: f is the frame with ip advanced
DoCall(f, nargs, kind) ==
  LET args   == popArgs(f.stack, nargs)
      rest   == popRestN(f.stack, nargs)
      fn     == popValue(rest)
      under  == popRest(rest)
      ev     == [NoEvent EXCEPT !.op = "CALL", !.kind = kind, !.callee = fn,
                                !.args = args, !.under = under,
                                !.call = CASE fn.t = "closure" -> "entered"
                                           [] fn.t = "native" -> "native"
                                           [] OTHER -> "notfunction"]
      f2     == [f EXCEPT !.stack = under]
  IN CASE fn.t = "closure" ->
            \* pcall(fn, ...): the closure saves PROGRAM and RCONST and installs its own
            /\ Len(run.frames) <= MaxDepth
            /\ run' = [run EXCEPT !.frames = Append([@ EXCEPT ![Len(@)] = f2],
                                                    NestedFrame(fn.n, run.rc, run.prog)),
                                  !.rc = fn.n, !.prog = fn.n,
                                  !.steps = @ + 1, !.ev = ev]
       [] fn.t = "native" ->
            \* the stand-in records its arguments and returns nothing: push(nil)
            \E n \in Borders(args) :
              run' = [run EXCEPT !.frames[Len(run.frames)] = f2,
                                 !.calls = Append(@, [fn |-> fn.n, args |-> SubSeq(args, 1, n)]),
                                 !.steps = @ + 1, !.ev = ev]
       [] OTHER ->
            \* not a function: push(nil)
            Continue([f2 EXCEPT !.stack = push(@, VNil)], ev)


\* ---- the top-level runner: one action per branch of its dispatch ----
\* (F.ip is the position of the opcode; its operand is at F.ip + 1)

T_PUSHK ==
  /\ TopOp("PUSHK")
  /\ LET o == fetch(TopCode, F.ip + 1)
     IN IF ~o.ok THEN Abort(Ev("PUSHK", "top"))
        ELSE Continue([F EXCEPT !.ip = @ + 2,
                                !.stack = push(@, constValue(tableGet(CurRC, o.v + 1), o.v + 1))],
                      Ev("PUSHK", "top"))
  /\ UNCHANGED <<enc, prs, bld, two, lex, xr, pm, fr, ln, srv, rot>>

T_GETG ==
  /\ TopOp("GETG")
  /\ LET o == fetch(TopCode, F.ip + 1)
     IN IF ~o.ok THEN Abort(Ev("GETG", "top"))
        ELSE Continue([F EXCEPT !.ip = @ + 2,
                                !.stack = push(@, getGlobal(run.G, NameAt(TopNames, o.v + 1)))],
                      Ev("GETG", "top"))
  /\ UNCHANGED <<enc, prs, bld, two, lex, xr, pm, fr, ln, srv, rot>>

T_SETG ==
  /\ TopOp("SETG")
  /\ LET o == fetch(TopCode, F.ip + 1)
     IN IF ~o.ok \/ NameAt(TopNames, o.v + 1) = UNDEF THEN Abort(Ev("SETG", "top"))
        ELSE run' = [run EXCEPT !.frames[Len(run.frames)] =
                                   [F EXCEPT !.ip = @ + 2, !.stack = popRest(@)],
                                !.G = setGlobal(@, NameAt(TopNames, o.v + 1), popValue(F.stack)),
                                !.steps = @ + 1, !.ev = Ev("SETG", "top")]
  /\ UNCHANGED <<enc, prs, bld, two, lex, xr, pm, fr, ln, srv, rot>>

T_GETL ==
  /\ TopOp("GETL")
  /\ LET o == fetch(TopCode, F.ip + 1)
     IN IF ~o.ok THEN Abort(Ev("GETL", "top"))
        ELSE Continue([F EXCEPT !.ip = @ + 2,
                                !.stack = push(@, getLocal(F.locals, o.v + 1))],
                      Ev("GETL", "top"))
  /\ UNCHANGED <<enc, prs, bld, two, lex, xr, pm, fr, ln, srv, rot>>

T_SETL ==
  /\ TopOp("SETL")
  /\ LET o == fetch(TopCode, F.ip + 1)
     IN IF ~o.ok THEN Abort(Ev("SETL", "top"))
        ELSE Continue([F EXCEPT !.ip = @ + 2,
                                !.stack = popRest(@),
                                !.locals = setLocal(@, o.v + 1, popValue(F.stack))],
                      Ev("SETL", "top"))
  /\ UNCHANGED <<enc, prs, bld, two, lex, xr, pm, fr, ln, srv, rot>>

T_CALL ==
  /\ TopOp("CALL")
  /\ LET o == fetch(TopCode, F.ip + 1)
     IN IF ~o.ok THEN Abort(Ev("CALL", "top"))
        ELSE DoCall([F EXCEPT !.ip = @ + 2], o.v, "top")
  /\ UNCHANGED <<enc, prs, bld, two, lex, xr, pm, fr, ln, srv, rot>>

T_RETURN ==
  /\ TopOp("RETURN")
  /\ LET o == fetch(TopCode, F.ip + 1)
     IN IF ~o.ok THEN Abort(Ev("RETURN", "top"))
        ELSE Finish([F EXCEPT !.ip = @ + 2, !.stack = popRestN(@, o.v)], Ev("RETURN", "top"))
  /\ UNCHANGED <<enc, prs, bld, two, lex, xr, pm, fr, ln, srv, rot>>

\* local b=pop(); local a=pop(); push(a op b)
TopBinary(name, r) ==
  IF r.err THEN Abort(Ev(name, "top"))
  ELSE /\ r.rep
       /\ Continue([F EXCEPT !.ip = @ + 1, !.stack = push(popRestN(@, 2), r.v)],
                   Ev(name, "top"))

OperandB(f) == popValue(f.stack)
OperandA(f) == popValue(popRest(f.stack))

T_ADD == TopOp("ADD") /\ TopBinary("ADD", luaArith("+", OperandA(F), OperandB(F)))
         /\ UNCHANGED <<enc, prs, bld, two, lex, xr, pm, fr, ln, srv, rot>>

T_SUB == TopOp("SUB") /\ TopBinary("SUB", luaArith("-", OperandA(F), OperandB(F)))
         /\ UNCHANGED <<enc, prs, bld, two, lex, xr, pm, fr, ln, srv, rot>>

T_MUL == TopOp("MUL") /\ TopBinary("MUL", luaArith("*", OperandA(F), OperandB(F)))
         /\ UNCHANGED <<enc, prs, bld, two, lex, xr, pm, fr, ln, srv, rot>>

T_DIV == TopOp("DIV") /\ TopBinary("DIV", luaArith("/", OperandA(F), OperandB(F)))
         /\ UNCHANGED <<enc, prs, bld, two, lex, xr, pm, fr, ln, srv, rot>>

T_CONCAT == TopOp("CONCAT") /\ TopBinary("CONCAT", luaConcat(OperandA(F), OperandB(F)))
            /\ UNCHANGED <<enc, prs, bld, two, lex, xr, pm, fr, ln, srv, rot>>

T_JMP ==
  /\ TopOp("JMP")
  /\ LET o == fetch(TopCode, F.ip + 1)
     IN IF ~o.ok THEN Abort(Ev("JMP", "top"))
        ELSE Continue([F EXCEPT !.ip = o.v + 1], Ev("JMP", "top"))
  /\ UNCHANGED <<enc, prs, bld, two, lex, xr, pm, fr, ln, srv, rot>>

T_JZ ==
  /\ TopOp("JZ")
  /\ LET o == fetch(TopCode, F.ip + 1)
         v == popValue(F.stack)
     IN IF v.t # "nil"
        THEN Continue([F EXCEPT !.ip = @ + 2, !.stack = popRest(@)], Ev("JZ", "top"))
        ELSE IF ~o.ok THEN Abort(Ev("JZ", "top"))
        ELSE Continue([F EXCEPT !.ip = o.v + 1, !.stack = popRest(@)], Ev("JZ", "top"))
  /\ UNCHANGED <<enc, prs, bld, two, lex, xr, pm, fr, ln, srv, rot>>

T_CLOSE ==
  /\ TopOp("CLOSE")
  /\ Finish([F EXCEPT !.ip = @ + 1], Ev("CLOSE", "top"))
  /\ UNCHANGED <<enc, prs, bld, two, lex, xr, pm, fr, ln, srv, rot>>

\* else: unknown opcode: break   (also when code[ip] is nil because ip < 1)
T_Unknown ==
  /\ Running("top")
  /\ F.ip <= Len(TopCode)
  /\ (F.ip < 1 \/ TopCode[F.ip] \notin Range(OPS))
  /\ Finish([F EXCEPT !.ip = @ + 1], Ev("unknown", "top"))
  /\ UNCHANGED <<enc, prs, bld, two, lex, xr, pm, fr, ln, srv, rot>>

\* while ip <= #code fails
T_End ==
  /\ Running("top")
  /\ F.ip > Len(TopCode)
  /\ Finish(F, Ev("end", "top"))
  /\ UNCHANGED <<enc, prs, bld, two, lex, xr, pm, fr, ln, srv, rot>>

\* ---- the runner inside a closure: one action per branch of its dispatch ----
ChildCode == ChildRec(F.child).code
ChildNames == ChildRec(F.child).names
ChildConsts == ChildRec(F.child).consts

NestedHandled == {"PUSHK", "GETG", "CALL", "RETURN", "CLOSE", "ADD", "CONCAT"}

NestedOp(name) ==
  /\ Running("nested")
  /\ F.ip >= 1 /\ F.ip <= Len(ChildCode)
  /\ ChildCode[F.ip] = OPS[name]

N_PUSHK ==
  /\ NestedOp("PUSHK")
  /\ LET o == fetch(ChildCode, F.ip + 1)
     IN IF ~o.ok THEN Unwind(Ev("PUSHK", "nested"))
        ELSE Continue([F EXCEPT !.ip = @ + 2,
                                !.stack = push(@, constValue(tableGet(ChildConsts, o.v + 1),
                                                             o.v + 1))],
                      Ev("PUSHK", "nested"))
  /\ UNCHANGED <<enc, prs, bld, two, lex, xr, pm, fr, ln, srv, rot>>

N_GETG ==
  /\ NestedOp("GETG")
  /\ LET o == fetch(ChildCode, F.ip + 1)
     IN IF ~o.ok THEN Unwind(Ev("GETG", "nested"))
        ELSE Continue([F EXCEPT !.ip = @ + 2,
                                !.stack = push(@, getGlobal(run.G, NameAt(ChildNames, o.v + 1)))],
                      Ev("GETG", "nested"))
  /\ UNCHANGED <<enc, prs, bld, two, lex, xr, pm, fr, ln, srv, rot>>

N_CALL ==
  /\ NestedOp("CALL")
  /\ LET o == fetch(ChildCode, F.ip + 1)
     IN IF ~o.ok THEN Unwind(Ev("CALL", "nested"))
        ELSE DoCall([F EXCEPT !.ip = @ + 2], o.v, "nested")
  /\ UNCHANGED <<enc, prs, bld, two, lex, xr, pm, fr, ln, srv, rot>>

\* res = table.unpack(outt): the first of the n values popped, nil when the stack ran out
N_RETURN ==
  /\ NestedOp("RETURN")
  /\ LET o == fetch(ChildCode, F.ip + 1)
     IN IF ~o.ok THEN Unwind(Ev("RETURN", "nested"))
        ELSE Return(IF o.v >= 1 /\ Len(F.stack) >= o.v
                    THEN F.stack[Len(F.stack) - o.v + 1] ELSE VNil,
                    Ev("RETURN", "nested"))
  /\ UNCHANGED <<enc, prs, bld, two, lex, xr, pm, fr, ln, srv, rot>>

N_CLOSE ==
  /\ NestedOp("CLOSE")
  /\ Return(VNil, Ev("CLOSE", "nested"))
  /\ UNCHANGED <<enc, prs, bld, two, lex, xr, pm, fr, ln, srv, rot>>

NestedBinary(name, r) ==
  IF r.err THEN Unwind(Ev(name, "nested"))
  ELSE /\ r.rep
       /\ Continue([F EXCEPT !.ip = @ + 1, !.stack = push(popRestN(@, 2), r.v)],
                   Ev(name, "nested"))

N_ADD == NestedOp("ADD") /\ NestedBinary("ADD", luaArith("+", OperandA(F), OperandB(F)))
         /\ UNCHANGED <<enc, prs, bld, two, lex, xr, pm, fr, ln, srv, rot>>

N_CONCAT == NestedOp("CONCAT") /\ NestedBinary("CONCAT", luaConcat(OperandA(F), OperandB(F)))
            /\ UNCHANGED <<enc, prs, bld, two, lex, xr, pm, fr, ln, srv, rot>>

\* unsupported op: ignore   (the operand, if any, is dispatched next)
N_Ignore ==
  /\ Running("nested")
  /\ F.ip >= 1 /\ F.ip <= Len(ChildCode)
  /\ ChildCode[F.ip] \notin {OPS[k] : k \in NestedHandled}
  /\ Continue([F EXCEPT !.ip = @ + 1], Ev("ignored", "nested"))
  /\ UNCHANGED <<enc, prs, bld, two, lex, xr, pm, fr, ln, srv, rot>>

\* while ip2 <= #child.code fails
N_End ==
  /\ Running("nested")
  /\ F.ip > Len(ChildCode)
  /\ Return(VNil, Ev("end", "nested"))
  /\ UNCHANGED <<enc, prs, bld, two, lex, xr, pm, fr, ln, srv, rot>>


-----------------------------------------------------------------------------
(* The programs and options the main specification starts from. *)

SrcHello ==
  <<"globalVar", "=", "\"hello\"", "..", "\" \"", "..", "\"world\"",
    "print", "(", "globalVar", ")">>

SrcLoop ==
  <<"local", "i", "=", "0", ";", "while", "i", "<", "5", "do", "i", "=", "i", "+", "1",
    "end", ";", "done_flag", "=", "true">>

SrcCallFail == <<"x", "=", "1", "+", "(", "2", "+", "foo", "(", ")", ")">>

SrcParam ==
  <<"function", "f", "(", "a", ")", "return", "a", "end", "r", "=", "f", "(", "5", ")">>

SrcArith ==
  <<"x", "=", "6", "/", "2", "*", "3", "-", "1", "y", "=", "x", "..", "1",
    "print", "(", "y", ",", "x", ")">>

SrcNested ==
  <<"function", "g", "(", ")", "print", "(", "1", "+", "2", ",", "1", "..", "\"\"", ")",
    "return", "3", "end", "r", "=", "g", "(", ")">>

SrcJump == <<"x", "=", "0", "print", "(", "0", ")">>

\* a function whose name is not ASCII
SrcAccent == <<"function", EAcute, "(", ")", "end">>

\* a local declaration inside a function body
SrcLocalFn ==
  <<"function", "f", "(", ")", "local", "x", "=", "1", "end", "f", "(", ")">>

\* a numeric for statement at the top level, and inside a function body
SrcFor == <<"for", "i", "=", "1", ",", "3", "do", "x", "=", "i", "end">>

SrcForFn ==
  <<"function", "f", "(", ")", "for", "i", "=", "1", ",", "3", "do", "x", "=", "i", "end",
    "end", "f", "(", ")">>

\* a function that raises (arithmetic on the nil global x), called before a constant is used
SrcRaise ==
  <<"function", "f", "(", ")", "return", "1", "+", "x", "end", "r", "=", "f", "(", ")",
    "y", "=", "2">>

Sources ==
  {SrcHello, SrcLoop, SrcCallFail, SrcParam, SrcArith, SrcNested, SrcJump, SrcAccent,
   SrcLocalFn, SrcFor, SrcForFn, SrcRaise}

\* the programs compiled under every option
SizeSources == {SrcJump, SrcAccent}

StringSource(tokens) == [isString |-> TRUE, tokens |-> tokens]
NonStringSource == [isString |-> FALSE, tokens |-> <<>>]

\* the draws of one chunk; the seed 12345 in base-1024 digits
Draw0 == [u |-> 0, keyA |-> 1, keyB |-> 1, seed |-> <<57, 12>>]

DefaultOpts == [targetSizeBytes |-> TUndef, oneSided |-> FALSE]

\* a program text length for which the default padding ends on a whole statement
WholePadLen == (DEFAULT_TARGET - InterpreterTextLen) % PadLen
WholePlen == WholePadLen + 9 * PadLen

TargetChoices ==
  {TUndef, TStr, TNum(0), TNum(0 - 5), TNum(100), TNum(MinTarget - 1), TNum(MinTarget),
   TNum(InterpreterTextLen + WholePadLen), TNum(InterpreterTextLen + WholePadLen + PadLen),
   TNum(InterpreterTextLen + 12 * PadLen)}

OptChoices == [targetSizeBytes : TargetChoices, oneSided : BOOLEAN]

EncIdle == [pc |-> "idle"]
PrsIdle == [pc |-> "idle"]
BldIdle == [pc |-> "idle"]
TwoIdle == [pc |-> "idle"]
LexIdle == [pc |-> "idle"]
XorIdle == [pc |-> "idle"]
PermIdle == [pc |-> "idle"]
FragIdle == [pc |-> "idle"]
LineIdle == [pc |-> "idle"]
ServerIdle == [pc |-> "idle"]
RotIdle == [pc |-> "idle"]
RestIdle == pm = PermIdle /\ fr = FragIdle /\ ln = LineIdle /\ srv = ServerIdle /\ rot = RotIdle
OthersIdle == two = TwoIdle /\ lex = LexIdle /\ xr = XorIdle /\ RestIdle

Init ==
  /\ enc = EncIdle /\ prs = PrsIdle /\ bld = BldIdle /\ OthersIdle
  /\ \E src \in Sources \cup {<<>>}, opts \in OptChoices, perm \in Perms,
        plen \in {WholePlen, WholePlen + 1} :
       /\ opts = DefaultOpts \/ (src \in SizeSources /\ perm = IdentityPerm)
       /\ plen = WholePlen \/ (src \in SizeSources /\ perm = IdentityPerm)
       /\ run = IdleRun(IF src = <<>> THEN NonStringSource ELSE StringSource(src),
                        opts, perm, <<Draw0>>, plen)

Next ==
  \/ Obfuscate
  \/ Load
  \/ T_PUSHK \/ T_GETG \/ T_SETG \/ T_GETL \/ T_SETL \/ T_CALL \/ T_RETURN
  \/ T_ADD \/ T_SUB \/ T_MUL \/ T_DIV \/ T_CONCAT \/ T_JMP \/ T_JZ \/ T_CLOSE
  \/ T_Unknown \/ T_End
  \/ N_PUSHK \/ N_GETG \/ N_CALL \/ N_RETURN \/ N_CLOSE \/ N_ADD \/ N_CONCAT
  \/ N_Ignore \/ N_End

Spec == Init /\ [][Next]_vars

-----------------------------------------------------------------------------
(* SpecEnc: a string constant encrypted by encryptConstantString and then   *)
(* decoded by the emitted fn_buildstr.                                      *)
(* enc = [pc, s, rnd, chunks, dec]: "plain" -> "encrypted" -> "decoded".    *)

RunIdle == IdleRun(NonStringSource, DefaultOpts, IdentityPerm, <<Draw0>>, WholePlen)

ByteChoices == {0, 97, 255}

\* draws of one chunk: both ends of keyA and keyB, a small and a large seed
\* (12345 and 4294967295 in base-1024 digits)
DrawChoices ==
  {[u |-> 0, keyA |-> a, keyB |-> b, seed |-> sd] :
     a \in {1, 254}, b \in {1, 7}, sd \in {<<57, 12>>, <<1023, 1023, 1023, 3>>}}

\* strings long enough for several chunks and for the upper limit of a chunk's length:
\* code units 37, 74, ... (some above 255)
LongString(n) == [i \in 1..n |-> (i * 37) % 300]
LongStrings == {LongString(13), LongString(70)}

\* draws for the long strings: the shortest and the longest chunk randint can ask for
LongDraws == {[Draw0 EXCEPT !.u = u] : u \in {0, 26}}

InitEnc ==
  /\ run = RunIdle /\ prs = PrsIdle /\ bld = BldIdle /\ OthersIdle
  /\ \/ \E s \in SeqsUpTo(ByteChoices, MaxStrLen), d \in DrawChoices :
          enc = [pc |-> "plain", s |-> s, rnd |-> <<d>>, chunks |-> <<>>, dec |-> Raised]
     \/ \E s \in LongStrings, d \in LongDraws :
          enc = [pc |-> "plain", s |-> s, rnd |-> <<d>>, chunks |-> <<>>, dec |-> Raised]

\* JS: chunks = encryptConstantString(str)
EncEncrypt ==
  /\ enc.pc = "plain"
  /\ enc' = [enc EXCEPT !.pc = "encrypted", !.chunks = encryptConstantString(enc.s, enc.rnd)]
  /\ UNCHANGED <<prs, bld, run, two, lex, xr, pm, fr, ln, srv, rot>>

\* Luau: RCONST[i] = fn_buildstr(c.chunks)
EncDecode ==
  /\ enc.pc = "encrypted"
  /\ enc' = [enc EXCEPT !.pc = "decoded", !.dec = fn_buildstr(enc.chunks)]
  /\ UNCHANGED <<prs, bld, run, two, lex, xr, pm, fr, ln, srv, rot>>

NextEnc == EncEncrypt \/ EncDecode

SpecEnc == InitEnc /\ [][NextEnc]_vars

-----------------------------------------------------------------------------
(* SpecBuild: buildFromAst applied to an AST given directly (the 'while'    *)
(* node is built by no parser rule), then serializeProgram.                 *)
(* bld = [pc, ast, builder, program]: "ast" -> "built" -> "serialized".     *)

AstIdent(nm) == [type |-> "ident", name |-> nm]
AstNumber(v) == [type |-> "number", value |-> v]
AstBinop(op, l, r) == [type |-> "binop", op |-> op, left |-> l, right |-> r]
AstAssign(nm, e) == [type |-> "assign", name |-> nm, expr |-> e]
AstLocalAssign(nm, e) == [type |-> "local_assign", name |-> nm, expr |-> e]
AstCall(nm, args) == [type |-> "call", callee |-> nm, args |-> args]
AstWhile(c, body) == [type |-> "while", cond |-> c, body |-> body]
AstFunction(nm, params, body) == [type |-> "function", name |-> nm, params |-> params, body |-> body]
AstReturn(e) == [type |-> "return", expr |-> e]
AstChunk(body) == [type |-> "chunk", body |-> body]

StmtChoices ==
  {AstAssign("x", AstNumber(1)),
   AstLocalAssign("i", AstNumber(0)),
   AstCall("print", <<AstIdent("i")>>),
   AstWhile(AstIdent("i"), <<>>),
   AstWhile(AstIdent("x"), <<AstAssign("i", AstBinop("+", AstIdent("i"), AstNumber(1)))>>),
   AstWhile(AstBinop("<", AstIdent("i"), AstNumber(5)),
         <<AstWhile(AstIdent("x"), <<AstCall("print", <<>>)>>), AstAssign("x", AstNumber(1))>>),
   AstFunction("f", <<"a", "b">>, <<AstReturn(AstBinop("+", AstIdent("a"), AstIdent("b")))>>),
   \* a function whose body declares a function that returns a string
   AstFunction("g", <<>>,
               <<AstFunction("f", <<>>, <<AstReturn([type |-> "string", value |-> <<97>>])>>),
                 AstReturn([type |-> "string", value |-> <<98>>])>>),
   \* a function that returns nil, and one that returns a literal beyond the double range
   AstFunction("f", <<>>, <<AstReturn([type |-> "nil"])>>),
   AstFunction("g", <<>>, <<AstReturn(AstNumber(Infinity))>>),
   \* a global whose name is a property every plain object inherits
   AstAssign("x", AstIdent("constructor")),
   NoopNode}

MaxStmts == 2

AstChoices == {AstChunk(body) : body \in SeqsUpTo(StmtChoices, MaxStmts)}

InitBuild ==
  /\ run = RunIdle /\ prs = PrsIdle /\ enc = EncIdle /\ OthersIdle
  /\ \E ast \in AstChoices :
       bld = [pc |-> "ast", ast |-> ast, builder |-> NewBuilder,
              program |-> NoArtifact.program]

\* builder.buildFromAst(ast)
BuildAst ==
  /\ bld.pc = "ast"
  /\ bld' = [bld EXCEPT !.pc = "built", !.builder = buildFromAst(NewBuilder, bld.ast)]
  /\ UNCHANGED <<enc, prs, run, two, lex, xr, pm, fr, ln, srv, rot>>

\* serializeProgram(builder, permMap)
SerializeBuilt ==
  /\ bld.pc = "built"
  /\ bld' = [bld EXCEPT !.pc = "serialized",
                        !.program = serializeProgram(bld.builder, IdentityPerm, <<Draw0>>)]
  /\ UNCHANGED <<enc, prs, run, two, lex, xr, pm, fr, ln, srv, rot>>

NextBuild == BuildAst \/ SerializeBuilt

SpecBuild == InitBuild /\ [][NextBuild]_vars

-----------------------------------------------------------------------------
(* SpecParse: parseChunk stepped one loop iteration at a time over a token  *)
(* sequence, then buildFromAst and serializeProgram.                        *)
(* prs = [pc, t, i, prev, last, iters, body, stuck, builder, program]:      *)
(*   "parsing" -> "parsed" -> "built" -> "serialized", or "parsing" ->      *)
(*   "stuck" when an iteration consumed no token (the JS loop would spin).  *)
(* prev is the position the last iteration started at, last the nodes it    *)
(* pushed.                                                                  *)

ParseAlphabet ==
  {"local", "function", "for", "end", "return", "x", "=", "(", ")", ",", "+", "1"}

InitParse ==
  /\ run = RunIdle /\ enc = EncIdle /\ bld = BldIdle /\ OthersIdle
  /\ \E t \in SeqsUpTo(ParseAlphabet, MaxTokens) :
       prs = [pc |-> "parsing", t |-> t, i |-> 0, prev |-> 0, last |-> <<>>, iters |-> 0,
              body |-> <<>>, stuck |-> FALSE, builder |-> NewBuilder,
              program |-> NoArtifact.program]

\* the state after the iteration entered at prs.i (it: the result of parseChunkIter)
Iterated(it) ==
  prs' = [prs EXCEPT !.pc = IF it.stuck \/ it.i <= prs.i THEN "stuck" ELSE "parsing",
                     !.i = it.i, !.prev = prs.i, !.last = it.n, !.iters = @ + 1,
                     !.body = @ \o it.n,
                     !.stuck = it.stuck \/ it.i <= prs.i]

\* one iteration of: while (this.i < this.t.length) { ... }
ParseIter ==
  /\ prs.pc = "parsing"
  /\ prs.i < Len(prs.t)
  /\ Iterated(parseChunkIter(prs.t, prs.i))
  /\ UNCHANGED <<enc, bld, run, two, lex, xr, pm, fr, ln, srv, rot>>

\* return {type: 'chunk', body}
ParseReturn ==
  /\ prs.pc = "parsing"
  /\ ~(prs.i < Len(prs.t))
  /\ prs' = [prs EXCEPT !.pc = "parsed"]
  /\ UNCHANGED <<enc, bld, run, two, lex, xr, pm, fr, ln, srv, rot>>

\* builder.buildFromAst(ast)
ParseBuild ==
  /\ prs.pc = "parsed"
  /\ prs' = [prs EXCEPT !.pc = "built",
                        !.builder = buildFromAst(NewBuilder,
                                                 [type |-> "chunk", body |-> prs.body])]
  /\ UNCHANGED <<enc, bld, run, two, lex, xr, pm, fr, ln, srv, rot>>

\* serializeProgram(builder, permMap)
ParseSerialize ==
  /\ prs.pc = "built"
  /\ prs' = [prs EXCEPT !.pc = "serialized",
                        !.program = serializeProgram(prs.builder, IdentityPerm, <<Draw0>>)]
  /\ UNCHANGED <<enc, bld, run, two, lex, xr, pm, fr, ln, srv, rot>>

NextParse == ParseIter \/ ParseReturn \/ ParseBuild \/ ParseSerialize

SpecParse == InitParse /\ [][NextParse]_vars

-----------------------------------------------------------------------------
(* SpecTwo: obfuscateLua called twice on the same source, each call with    *)
(* its own opcode permutation and its own random draws.                     *)
(* two = [pc, source, permA, rndA, permB, rndB, a, b]:                      *)
(*   "fresh" -> "first" -> "both"; a and b are the results of the calls.    *)

\* the permutations and draws a call of the pair may get
PairPerms == {IdentityPerm, ExchangePerm("PUSHK", "SETG"), ExchangePerm("JZ", "CLOSE")}

PairDraws ==
  {<<[u |-> u, keyA |-> a, keyB |-> 1, seed |-> sd]>> :
     u \in {0, 1}, a \in {1, 254}, sd \in {<<57, 12>>, <<1023, 1023, 1023, 3>>}}

\* a program with a function record and string constants at both levels
SrcBoth ==
  <<"function", "g", "(", ")", "return", "\"a\"", "end", "s", "=", "\"hello\"">>

PairSources == Sources \cup {SrcBoth}

NoResult == [threw |-> TRUE, builder |-> NewBuilder, permMap |-> IdentityPerm,
             artifact |-> NoArtifact]

InitTwo ==
  /\ run = RunIdle /\ enc = EncIdle /\ prs = PrsIdle /\ bld = BldIdle
  /\ lex = LexIdle /\ xr = XorIdle /\ RestIdle
  /\ \E src \in PairSources, pa \in PairPerms, pb \in PairPerms, ra \in PairDraws,
        rb \in PairDraws :
       two = [pc |-> "fresh", source |-> StringSource(src), permA |-> pa, rndA |-> ra,
              permB |-> pb, rndB |-> rb, a |-> NoResult, b |-> NoResult]

FirstCall ==
  /\ two.pc = "fresh"
  /\ two' = [two EXCEPT !.pc = "first",
                        !.a = obfuscateLua(two.source, DefaultOpts, two.permA, two.rndA,
                                           WholePlen)]
  /\ UNCHANGED <<enc, prs, bld, run, lex, xr, pm, fr, ln, srv, rot>>

SecondCall ==
  /\ two.pc = "first"
  /\ two' = [two EXCEPT !.pc = "both",
                        !.b = obfuscateLua(two.source, DefaultOpts, two.permB, two.rndB,
                                           WholePlen)]
  /\ UNCHANGED <<enc, prs, bld, run, lex, xr, pm, fr, ln, srv, rot>>

NextTwo == FirstCall \/ SecondCall

SpecTwo == InitTwo /\ [][NextTwo]_vars

-----------------------------------------------------------------------------
(* tokenize (src/obfuscator.js): the source is a sequence of characters     *)
(* (one-character strings), a token the sequence of its characters.  The    *)
(* regular expression is                                                    *)
(*   \s*( ident | "..." | '...' | \d+\.\d+ | \d+ | == | ~= | <= | >= | ..   *)
(*        | . | [\n] )\s*                                                   *)
(* with the g flag: exec looks for the first position at or after lastIndex *)
(* where it matches; \s* is greedy and gives characters back when the group *)
(* cannot match after it.  The characters of the model are a letter, a      *)
(* digit, space, line feed, double quote, dot and equals sign.              *)

LexLetters == {"a"}
LexDigits == {"1"}
LexSpaces == {" ", "\n"}
LexAlphabet == LexLetters \cup LexDigits \cup LexSpaces \cup {"\"", ".", "="}

NoChar == ""
CharAt(src, q) == IF q >= 0 /\ q < Len(src) THEN src[q + 1] ELSE NoChar

\* the length of the longest run of characters of S that starts at index q (from 0)
RECURSIVE RunLen(_, _, _)
RunLen(src, q, S) == IF CharAt(src, q) \in S THEN 1 + RunLen(src, q + 1, S) ELSE 0

\* "(?:\\.|[^"])*" at an opening quote at q: the index of the closing quote, or -1
RECURSIVE ClosingQuote(_, _)
ClosingQuote(src, q) ==
  IF q >= Len(src) THEN 0 - 1
  ELSE IF src[q + 1] = "\"" THEN q
  ELSE ClosingQuote(src, q + 1)

\* \d+\.\d+ | \d+ at a digit: d is the length of the digit run at q
numberLen(src, q, d) ==
  IF CharAt(src, q + d) = "." /\ CharAt(src, q + d + 1) \in LexDigits
  THEN d + 1 + RunLen(src, q + d + 1, LexDigits)
  ELSE d

\* the string alternative at a quote: close is the index of the closing quote;
\* without one the quote is matched by the alternative .
stringLen(q, close) == IF close < 0 THEN 1 ELSE close - q + 1

\* the length of what the group matches at index q: the first alternative that matches;
\* 0 when none does (only at the end of the source)
groupLen(src, q) ==
  CASE CharAt(src, q) = NoChar -> 0
    [] CharAt(src, q) \in LexLetters -> RunLen(src, q, LexLetters \cup LexDigits)
    [] CharAt(src, q) = "\"" -> stringLen(q, ClosingQuote(src, q + 1))
    [] CharAt(src, q) \in LexDigits -> numberLen(src, q, RunLen(src, q, LexDigits))
    [] CharAt(src, q) = "=" /\ CharAt(src, q + 1) = "=" -> 2
    [] CharAt(src, q) = "." /\ CharAt(src, q + 1) = "." -> 2
    [] OTHER -> 1     \* . for a character that is no line terminator, [\n] for a line feed

NoMatch == [ok |-> FALSE, token |-> <<>>, lastIndex |-> 0]

\* the match whose group starts at q and has len characters; the final \s* follows
lexMatch(src, q, len) ==
  [ok |-> TRUE, token |-> SubSeq(src, q + 1, q + len),
   lastIndex |-> q + len + RunLen(src, q + len, LexSpaces)]

lexGroupAt(src, q, len) == IF len > 0 THEN lexMatch(src, q, len) ELSE NoMatch

\* the match that starts at index pos with the leading \s* taking k characters, or the
\* next shorter one
RECURSIVE lexBacktrack(_, _, _)
lexTried(src, pos, k, m) == IF m.ok THEN m ELSE lexBacktrack(src, pos, k - 1)

lexBacktrack(src, pos, k) ==
  IF k < 0 THEN NoMatch
  ELSE lexTried(src, pos, k, lexGroupAt(src, pos + k, groupLen(src, pos + k)))

\* re.exec(src) with re.lastIndex = pos: the first start at or after pos that matches
RECURSIVE reExec(_, _)
reExecTried(src, pos, m) == IF m.ok THEN m ELSE reExec(src, pos + 1)

reExec(src, pos) ==
  IF pos > Len(src) THEN NoMatch
  ELSE reExecTried(src, pos, lexBacktrack(src, pos, RunLen(src, pos, LexSpaces)))

(* SpecLex: tokenize stepped one exec at a time.                            *)
(* lex = [pc, src, lastIndex, out]: "matching" -> "returned".               *)

InitLex ==
  /\ run = RunIdle /\ enc = EncIdle /\ prs = PrsIdle /\ bld = BldIdle
  /\ two = TwoIdle /\ xr = XorIdle /\ RestIdle
  /\ \E src \in SeqsUpTo(LexAlphabet, MaxSrcLen) :
       lex = [pc |-> "matching", src |-> src, lastIndex |-> 0, out |-> <<>>]

\* the state after one exec (m: its result): out.push(m[1]), or the loop ends
Executed(m) ==
  IF m.ok
  THEN lex' = [lex EXCEPT !.lastIndex = m.lastIndex, !.out = Append(@, m.token)]
  ELSE lex' = [lex EXCEPT !.pc = "returned"]

\* while ((m = re.exec(src)) !== null) out.push(m[1]);  return out
LexExec ==
  /\ lex.pc = "matching"
  /\ Executed(reExec(lex.src, lex.lastIndex))
  /\ UNCHANGED <<enc, prs, bld, run, two, xr, pm, fr, ln, srv, rot>>

NextLex == LexExec

SpecLex == InitLex /\ [][NextLex]_vars

-----------------------------------------------------------------------------
(* The XOR loader variant (src/unnamed/part_002): obfuscateLua turns the    *)
(* source into the array of its UTF-16 code units, XORs it with one key and *)
(* emits the array, the key and a decode function.  A source string is a    *)
(* sequence of code units 0..65535, a Lua string a sequence of bytes.       *)

\* function toByteArray(s): arr.push(s.charCodeAt(i))
toByteArray(s) == [i \in 1..Len(s) |-> s[i]]

\* function xorArray(arr, key): arr.map(v => (v ^ key) & 0xFF)
xorArray(arr, key) == [i \in 1..Len(arr) |-> BitAnd(BitXor(arr[i], key), 255)]

\* Luau: local function bxor(a,b): for i=0,7: bit i of a and of b differ -> r = r + 2^i
RECURSIVE bxorBits(_, _, _)
bxorBits(a, b, i) ==
  IF i > 7 THEN 0
  ELSE (IF ((a \div Pow2(i)) % 2) # ((b \div Pow2(i)) % 2) THEN Pow2(i) ELSE 0)
       + bxorBits(a, b, i + 1)

bxorFn(a, b) == bxorBits(a, b, 0)

\* Luau: local function decode(): _t[i] = string.char(bxor(data[i], key)); table.concat(_t)
\* (string.char raises for a number outside 0..255)
decodeFn(data, key) ==
  IF \A i \in 1..Len(data) : bxorFn(data[i], key) \in 0..255
  THEN [ok |-> TRUE, out |-> [i \in 1..Len(data) |-> bxorFn(data[i], key)]]
  ELSE Raised

(* SpecXor: xr = [pc, s, key, data, dec]: "source" -> "emitted" -> "decoded" *)

\* code units: NUL, line feed, a letter, the last Latin-1 unit, the first unit above it,
\* the euro sign
UnitChoices == {0, 10, 97, 255, 256, 8364}

\* const key = randint(1, 255)
KeyChoices == {1, 85, 255}

InitXor ==
  /\ run = RunIdle /\ enc = EncIdle /\ prs = PrsIdle /\ bld = BldIdle
  /\ two = TwoIdle /\ lex = LexIdle /\ RestIdle
  /\ \E s \in SeqsUpTo(UnitChoices, MaxUnits), key \in KeyChoices :
       xr = [pc |-> "source", s |-> s, key |-> key, data |-> <<>>, dec |-> Raised]

\* JS: xored = xorArray(toByteArray(source), key); the data array and the key are emitted
XorEncode ==
  /\ xr.pc = "source"
  /\ xr' = [xr EXCEPT !.pc = "emitted", !.data = xorArray(toByteArray(xr.s), xr.key)]
  /\ UNCHANGED <<enc, prs, bld, run, two, lex, pm, fr, ln, srv, rot>>

\* Luau: local tmp = decode()
XorDecode ==
  /\ xr.pc = "emitted"
  /\ xr' = [xr EXCEPT !.pc = "decoded", !.dec = decodeFn(xr.data, xr.key)]
  /\ UNCHANGED <<enc, prs, bld, run, two, lex, pm, fr, ln, srv, rot>>

NextXor == XorEncode \/ XorDecode

SpecXor == InitXor /\ [][NextXor]_vars

-----------------------------------------------------------------------------
(* The opcode shuffle: vals.slice().sort(() => Math.random() - 0.5), then   *)
(* keys.forEach((k, i) => mapping[k] = shuffled[i]).  The sort is followed  *)
(* as an insertion sort whose comparator answers at random: the element at  *)
(* position i moves left while the comparator says "greater".               *)
(* pm = [pc, shuffled, i, j, moves, mapping]:                               *)
(*   "sorting" -> "sorted" -> "mapped".                                     *)

\* every variable of the specifications above at rest
OldIdle ==
  /\ run = RunIdle /\ enc = EncIdle /\ prs = PrsIdle /\ bld = BldIdle
  /\ two = TwoIdle /\ lex = LexIdle /\ xr = XorIdle

MaxMoves == 3       \* comparator answers "greater" followed in one sort

\* Object.keys(OPC) and Object.values(OPC), in property order
OpcKeys == OpNames
OpcVals == [i \in 1..Len(OpNames) |-> OPC[OpNames[i]]]

\* a lossy exchange: the second write is missing
exchangeLost(arr, j) == [arr EXCEPT ![j - 1] = arr[j]]

\* the sort exchanges the elements at j - 1 and j
exchange(arr, j) == [arr EXCEPT ![j - 1] = arr[j], ![j] = arr[j - 1]]

\* keys.forEach((k, i) => mapping[k] = shuffled[i])
mappingOf(keys, shuffled) ==
  [k \in Range(keys) |-> shuffled[CHOOSE i \in 1..Len(keys) : keys[i] = k]]

InitPerm ==
  /\ OldIdle /\ fr = FragIdle /\ ln = LineIdle /\ srv = ServerIdle /\ rot = RotIdle
  /\ pm = [pc |-> "sorting", shuffled |-> OpcVals, i |-> 2, j |-> 2, moves |-> 0,
           mapping |-> <<>>]

\* Math.random() - 0.5 > 0: the element moves one place to the left
SortMove ==
  /\ pm.pc = "sorting" /\ pm.j > 1 /\ pm.moves < MaxMoves
  /\ pm' = [pm EXCEPT !.shuffled = exchange(@, pm.j), !.j = @ - 1, !.moves = @ + 1]
  /\ UNCHANGED <<enc, prs, bld, run, two, lex, xr, fr, ln, srv, rot>>

\* Math.random() - 0.5 <= 0, or the front is reached: the element stays, the next one starts
SortPlace ==
  /\ pm.pc = "sorting"
  /\ pm' = IF pm.i = Len(pm.shuffled) THEN [pm EXCEPT !.pc = "sorted"]
           ELSE [pm EXCEPT !.i = @ + 1, !.j = pm.i + 1]
  /\ UNCHANGED <<enc, prs, bld, run, two, lex, xr, fr, ln, srv, rot>>

MapKeys ==
  /\ pm.pc = "sorted"
  /\ pm' = [pm EXCEPT !.pc = "mapped", !.mapping = mappingOf(OpcKeys, pm.shuffled)]
  /\ UNCHANGED <<enc, prs, bld, run, two, lex, xr, fr, ln, srv, rot>>

NextPerm == SortMove \/ SortPlace \/ MapKeys

SpecPerm == InitPerm /\ [][NextPerm]_vars

-----------------------------------------------------------------------------
(* The single-line builder of the XOR loader variant (src/unnamed/part_002):*)
(* ensureTerminator on every fragment, join, newline normalisation,         *)
(* padding with junk segments and trimming.  A text is a sequence of        *)
(* characters.                                                              *)
(* fr = [pc, fragments, target, safe, lua]:                                 *)
(*   "fragments" -> "safe" -> "joined" -> "built".                          *)

MaxFragLen == 2     \* longest fragment given to the single-line builder

FragAlphabet == {"a", " ", "\n", ";", "}"}
FragSpaces == {" ", "\n"}

\* fragment.replace(/\s+$/g, '')
RECURSIVE trimEnd(_)
trimEnd(s) ==
  IF s # <<>> /\ s[Len(s)] \in FragSpaces THEN trimEnd(SubSeq(s, 1, Len(s) - 1)) ELSE s

\* if (/[;}]$/.test(fragment)) return fragment;  return fragment + ';'
terminated(t) == IF t # <<>> /\ t[Len(t)] \in {";", "}"} THEN t ELSE t \o <<";">>

\* function ensureTerminator(fragment)
ensureTerminator(fragment) == IF fragment = <<>> THEN <<";">> ELSE terminated(trimEnd(fragment))

\* safe.join('')
RECURSIVE joinAll(_)
joinAll(parts) == IF parts = <<>> THEN <<>> ELSE parts[1] \o joinAll(Tail(parts))

\* replace(/\n+/g, ';'): every run of line breaks becomes one semicolon
RECURSIVE newlinesToSemi(_)
newlinesToSemi(s) ==
  IF s = <<>> THEN <<>>
  ELSE IF s[1] = "\n"
  THEN IF Len(s) > 1 /\ s[2] = "\n" THEN newlinesToSemi(Tail(s))
       ELSE <<";">> \o newlinesToSemi(Tail(s))
  ELSE <<s[1]>> \o newlinesToSemi(Tail(s))

\* replace(/;{2,}/g, ';')
RECURSIVE collapseSemis(_)
collapseSemis(s) ==
  IF s = <<>> THEN <<>>
  ELSE IF s[1] = ";" /\ Len(s) > 1 /\ s[2] = ";" THEN collapseSemis(Tail(s))
  ELSE <<s[1]>> \o collapseSemis(Tail(s))

\* generateJunkSegment(): assignments and dummy functions, each followed by a semicolon
JunkSegment == <<"a", ";">>

\* while (Buffer.byteLength(lua) < targetSize) { lua += junk; collapse }
RECURSIVE padJunk(_, _)
padJunk(lua, target) ==
  IF Len(lua) < target THEN padJunk(collapseSemis(lua \o JunkSegment), target) ELSE lua

\* if longer than the target: lua.slice(0, targetSize)
trimTo(lua, target) == IF Len(lua) > target THEN SubSeq(lua, 1, target) ELSE lua

FragTargets == {0, 5}

InitFrag ==
  /\ OldIdle /\ pm = PermIdle /\ ln = LineIdle /\ srv = ServerIdle /\ rot = RotIdle
  /\ \E f1 \in SeqsUpTo(FragAlphabet, MaxFragLen), f2 \in SeqsUpTo(FragAlphabet, MaxFragLen),
        target \in FragTargets :
       fr = [pc |-> "fragments", fragments |-> <<f1, f2>>, target |-> target,
             safe |-> <<>>, lua |-> <<>>]

\* const safe = fragments.map(ensureTerminator)
FragTerminate ==
  /\ fr.pc = "fragments"
  /\ fr' = [fr EXCEPT !.pc = "safe",
                      !.safe = [k \in 1..Len(fr.fragments) |-> ensureTerminator(fr.fragments[k])]]
  /\ UNCHANGED <<enc, prs, bld, run, two, lex, xr, pm, ln, srv, rot>>

\* join, newline normalisation, collapse of repeated semicolons
FragJoin ==
  /\ fr.pc = "safe"
  /\ fr' = [fr EXCEPT !.pc = "joined",
                      !.lua = collapseSemis(newlinesToSemi(joinAll(fr.safe)))]
  /\ UNCHANGED <<enc, prs, bld, run, two, lex, xr, pm, ln, srv, rot>>

\* padding, trimming and the final cleanup
FragPad ==
  /\ fr.pc = "joined"
  /\ fr' = [fr EXCEPT !.pc = "built",
                      !.lua = collapseSemis(newlinesToSemi(
                                trimTo(padJunk(fr.lua, fr.target), fr.target)))]
  /\ UNCHANGED <<enc, prs, bld, run, two, lex, xr, pm, ln, srv, rot>>

NextFrag == FragTerminate \/ FragJoin \/ FragPad

SpecFrag == InitFrag /\ [][NextFrag]_vars

-----------------------------------------------------------------------------
(* The text of the artifact (buildLuaInterpreter, src/obfuscator.js): the   *)
(* program table, then the interpreter text, whose helpers are introduced   *)
(* by "-- ..." comment lines; with oneSided every line break is replaced by *)
(* a semicolon; then the text is padded and cut.  A text is a sequence of   *)
(* characters: "s" a character of a statement, "-" a dash, "c" a character  *)
(* of a comment, "\n" and ";".                                              *)
(* ln = [pc, program, oneSided, target, lua, out]:                          *)
(*   "program" -> "assembled" -> "collapsed" -> "padded".                   *)

MaxProgLen == 3     \* longest program text given to the text specification

\* the interpreter text after the program table: a comment line, a helper, the
\* "-- run" comment line, and pcall(fn_run)
InterpreterText == <<"\n", "-", "-", "c", "\n", "s", "\n", "-", "-", "c", "\n", "s", "\n">>

\* one round of padding: ;name="hex"
PadPiece == <<";", "s">>

\* out.replace(/\n/g, ';')
breaksToSemi(s) == [i \in 1..Len(s) |-> IF s[i] = "\n" THEN ";" ELSE s[i]]

\* while (Buffer.byteLength(out) < targetSize) out += pad
RECURSIVE padText(_, _)
padText(out, target) == IF Len(out) < target THEN padText(out \o PadPiece, target) ELSE out

\* what a Lua lexer keeps of a text: a comment runs from "--" to the end of its line
RECURSIVE luaCode(_, _)
luaCode(s, inComment) ==
  IF s = <<>> THEN <<>>
  ELSE IF inComment
  THEN IF s[1] = "\n" THEN <<"\n">> \o luaCode(Tail(s), FALSE) ELSE luaCode(Tail(s), TRUE)
  ELSE IF s[1] = "-" /\ Len(s) > 1 /\ s[2] = "-" THEN luaCode(Tail(s), TRUE)
  ELSE <<s[1]>> \o luaCode(Tail(s), FALSE)

\* the statement characters of a text, separators left out
RECURSIVE statementChars(_)
statementChars(s) ==
  IF s = <<>> THEN <<>>
  ELSE IF s[1] \in {"\n", ";"} THEN statementChars(Tail(s))
  ELSE <<s[1]>> \o statementChars(Tail(s))

LineTargets == {0, Len(InterpreterText) + 4, Len(InterpreterText) + 7}

InitLine ==
  /\ OldIdle /\ pm = PermIdle /\ fr = FragIdle /\ srv = ServerIdle /\ rot = RotIdle
  /\ \E program \in SeqsUpTo({"s", "\n"}, MaxProgLen), oneSided \in BOOLEAN,
        target \in LineTargets :
       ln = [pc |-> "program", program |-> program, oneSided |-> oneSided,
             target |-> target, lua |-> <<>>, out |-> <<>>]

\* let lua = programLua; lua += `...`
LineAssemble ==
  /\ ln.pc = "program"
  /\ ln' = [ln EXCEPT !.pc = "assembled", !.lua = ln.program \o InterpreterText]
  /\ UNCHANGED <<enc, prs, bld, run, two, lex, xr, pm, fr, srv, rot>>

\* let out = lua; if (oneSided) out = out.replace(/\n/g, ';')
LineCollapse ==
  /\ ln.pc = "assembled"
  /\ ln' = [ln EXCEPT !.pc = "collapsed",
                      !.out = IF ln.oneSided THEN breaksToSemi(ln.lua) ELSE ln.lua]
  /\ UNCHANGED <<enc, prs, bld, run, two, lex, xr, pm, fr, srv, rot>>

\* the padding loop, then out.slice(0, targetSize) when the text is longer
LinePad ==
  /\ ln.pc = "collapsed"
  /\ ln' = [ln EXCEPT !.pc = "padded",
                      !.out = trimTo(padText(ln.out, ln.target), ln.target)]
  /\ UNCHANGED <<enc, prs, bld, run, two, lex, xr, pm, fr, srv, rot>>

NextLine == LineAssemble \/ LineCollapse \/ LinePad

SpecLine == InitLine /\ [][NextLine]_vars

-----------------------------------------------------------------------------
(* The file server (src/unnamed/part_000): /generate stores a fresh random  *)
(* token with its expiry, /source serves the script once for a stored token *)
(* that has not expired.  Time is counted in minutes.                       *)
(* srv = [pc, apiKey, tokens, now, issued, issuedAt, served, last]:         *)
(*   tokens is the Map (a function from the stored tokens to their expiry), *)
(*   issued / served count the /generate and the served /source requests of *)
(*   each token, issuedAt is the time of its last /generate, last describes *)
(*   the last request: [kind, token, at, before] with before the Map the    *)
(*   request found.                                                         *)

MaxTime == 4        \* minutes of clock followed
MaxIssues == 2      \* /generate requests followed per token value

\* const ttl = 2 * 60 * 1000, in minutes
TTL == 2

\* values crypto.randomBytes(16).toString('hex') can return
TokenValues == {"t1", "t2"}

\* req.query.token: a token value, or undefined when the parameter is missing
QueryTokens == TokenValues \cup {UNDEF}

EmptyMap == [t \in {} |-> 0]

\* tokens.set(token, exp)
mapSet(m, token, exp) == [t \in DOMAIN m \cup {token} |-> IF t = token THEN exp ELSE m[t]]

\* a delete that leaves the entry in place
mapKeep(m, token) == m

\* tokens.delete(token)
mapDelete(m, token) == [t \in DOMAIN m \ {token} |-> m[t]]

\* !exp || now > exp, with exp = tokens.get(token)
sourceRejects(m, token, now) ==
  IF token \in DOMAIN m THEN m[token] = 0 \/ now > m[token] ELSE TRUE

NoRequest == [kind |-> "none", token |-> UNDEF, at |-> 0, before |-> EmptyMap]

InitServer ==
  /\ OldIdle /\ pm = PermIdle /\ fr = FragIdle /\ ln = LineIdle /\ rot = RotIdle
  /\ \E apiKey \in BOOLEAN :
       srv = [pc |-> "listening", apiKey |-> apiKey, tokens |-> EmptyMap, now |-> 0,
              issued |-> [t \in TokenValues |-> 0], issuedAt |-> [t \in TokenValues |-> 0],
              served |-> [t \in TokenValues |-> 0], last |-> NoRequest]

\* the clock advances
Tick ==
  /\ srv.pc = "listening" /\ srv.now < MaxTime
  /\ srv' = [srv EXCEPT !.now = @ + 1, !.last = NoRequest]
  /\ UNCHANGED <<enc, prs, bld, run, two, lex, xr, pm, fr, ln, rot>>

\* GET /generate with API_KEY set and a wrong or missing key: 403
GenerateDenied ==
  /\ srv.pc = "listening" /\ srv.apiKey
  /\ srv' = [srv EXCEPT !.last = [kind |-> "denied", token |-> UNDEF, at |-> srv.now,
                                  before |-> srv.tokens]]
  /\ UNCHANGED <<enc, prs, bld, run, two, lex, xr, pm, fr, ln, rot>>

\* GET /generate (no API_KEY, or the right key): makeToken(), tokens.set(token, now + ttl)
Generate ==
  /\ srv.pc = "listening"
  /\ \E token \in TokenValues :
       /\ srv.issued[token] < MaxIssues
       /\ srv' = [srv EXCEPT !.tokens = mapSet(@, token, srv.now + TTL),
                             !.issued[token] = @ + 1,
                             !.issuedAt[token] = srv.now,
                             !.last = [kind |-> "generated", token |-> token, at |-> srv.now,
                                       before |-> srv.tokens]]
  /\ UNCHANGED <<enc, prs, bld, run, two, lex, xr, pm, fr, ln, rot>>

\* GET /source?token=...: 403 for an unknown or expired token
SourceRejected ==
  /\ srv.pc = "listening"
  /\ \E token \in QueryTokens :
       /\ sourceRejects(srv.tokens, token, srv.now)
       /\ srv' = [srv EXCEPT !.last = [kind |-> "rejected", token |-> token, at |-> srv.now,
                                       before |-> srv.tokens]]
  /\ UNCHANGED <<enc, prs, bld, run, two, lex, xr, pm, fr, ln, rot>>

\* GET /source?token=...: tokens.delete(token), then the script (or "-- no code found --")
SourceServed ==
  /\ srv.pc = "listening"
  /\ \E token \in QueryTokens :
       /\ ~sourceRejects(srv.tokens, token, srv.now)
       /\ srv' = [srv EXCEPT !.tokens = mapDelete(@, token),
                             !.served[token] = @ + 1,
                             !.last = [kind |-> "served", token |-> token, at |-> srv.now,
                                       before |-> srv.tokens]]
  /\ UNCHANGED <<enc, prs, bld, run, two, lex, xr, pm, fr, ln, rot>>

NextServer == Tick \/ GenerateDenied \/ Generate \/ SourceRejected \/ SourceServed

SpecServer == InitServer /\ [][NextServer]_vars

-----------------------------------------------------------------------------
(* One byte through the transform of encryptConstantString (JS: add keyA,   *)
(* rotl8 by keyB) and back through the emitted helpers (Luau: fn_rotr by b, *)
(* fn_sub of a).                                                            *)
(* rot = [pc, v, keyA, keyB, x]:                                            *)
(*   "byte" -> "added" -> "rotated" -> "unrotated" -> "restored".           *)

\* keyA = randint(1, 254), keyB = randint(1, 7)
KeyARange == 1..254
KeyBRange == 1..7

\* the keys keyA the steps are followed with (both ends of the range)
RotKeys == {1, 254}

InitRot ==
  /\ OldIdle /\ pm = PermIdle /\ fr = FragIdle /\ ln = LineIdle /\ srv = ServerIdle
  /\ \E v \in 0..255, keyA \in RotKeys, keyB \in KeyBRange :
       rot = [pc |-> "byte", v |-> v, keyA |-> keyA, keyB |-> keyB, x |-> v]

\* (b + keyA) & 0xFF
RotAdd ==
  /\ rot.pc = "byte"
  /\ rot' = [rot EXCEPT !.pc = "added", !.x = BitAnd(rot.v + rot.keyA, 255)]
  /\ UNCHANGED <<enc, prs, bld, run, two, lex, xr, pm, fr, ln, srv>>

\* rotl8(..., keyB)
RotLeft ==
  /\ rot.pc = "added"
  /\ rot' = [rot EXCEPT !.pc = "rotated", !.x = rotl8(rot.x, rot.keyB)]
  /\ UNCHANGED <<enc, prs, bld, run, two, lex, xr, pm, fr, ln, srv>>

\* fn_rotr(v, ch.b)
RotRight ==
  /\ rot.pc = "rotated"
  /\ rot' = [rot EXCEPT !.pc = "unrotated", !.x = fn_rotr(rot.x, rot.keyB)]
  /\ UNCHANGED <<enc, prs, bld, run, two, lex, xr, pm, fr, ln, srv>>

\* fn_sub(..., ch.a)
RotSub ==
  /\ rot.pc = "unrotated"
  /\ rot' = [rot EXCEPT !.pc = "restored", !.x = fn_sub(rot.x, rot.keyA)]
  /\ UNCHANGED <<enc, prs, bld, run, two, lex, xr, pm, fr, ln, srv>>

NextRot == RotAdd \/ RotLeft \/ RotRight \/ RotSub

SpecRot == InitRot /\ [][NextRot]_vars

-----------------------------------------------------------------------------
(* Properties. *)

\* a run of the artifact is over (or could not start)
Terminal == run.phase \in {"norun", "loaderror", "finished", "aborted"}

HelloWorldBytes == StringOf["\"hello\""] \o StringOf["\" \""] \o StringOf["\"world\""]

\* C1: faithful execution: the artifact of the hello-world program, once its run is over,
\* has invoked the print stand-in exactly once, with the text "hello world", whatever the
\* opcode permutation.
C1_HelloWorld ==
  (run.source = StringSource(SrcHello) /\ Terminal) =>
     /\ run.phase = "finished"
     /\ run.calls = <<[fn |-> PrintFn.n, args |-> <<VStr(HelloWorldBytes)>>]>>

\* C2: round trip of the chunked add/rotate/shuffle transform: the emitted decoder,
\* given the chunks encryptConstantString made of a byte sequence, returns that sequence
\* (and raises no error), for every sequence, key pair and seed.
C2_RoundTrip == enc.pc = "decoded" => (enc.dec.ok /\ enc.dec.out = enc.s)

\* the opcodes followed by one operand in the instruction stream
WithOperand == {"PUSHK", "GETG", "SETG", "GETL", "SETL", "CALL", "RETURN", "JMP", "JZ"}

\* the logical opcode the emitter wrote as tag v
LogicalOp(v) == CHOOSE k \in DOMAIN OPC : OPC[k] = v

\* the positions (from 1) of the opcodes in the stream the builder emitted, from p on
RECURSIVE OpcodePositions(_, _)
OpcodePositions(code, p) ==
  IF p > Len(code) \/ code[p] \notin Range(OPC) THEN {}
  ELSE {p} \cup OpcodePositions(code, IF LogicalOp(code[p]) \in WithOperand THEN p + 2 ELSE p + 1)

\* every opcode of the stream `emitted` is written in `serialized` with the tag of ops
SameTags(emitted, serialized, ops) ==
  \A p \in OpcodePositions(emitted, 1) :
     p <= Len(serialized) /\ serialized[p] = ops[LogicalOp(emitted[p])]

\* C3: within one call, every opcode tag of the serialized instruction stream (top-level
\* code and the code of nested function records) is the tag that the dispatch table OPS of
\* the emitted interpreter gives to the same logical opcode.
C3_SameMapping ==
  run.phase \notin {"idle", "threw"} =>
     /\ SameTags(run.builder.code, run.artifact.program.code, run.artifact.OPS)
     /\ \A k \in 1..Len(run.builder.consts) :
           run.builder.consts[k].k = "fn" =>
              SameTags(run.builder.consts[k].v.code, run.artifact.program.consts[k].v.code,
                       run.artifact.OPS)

\* C4: loop correctness: the artifact of
\*   local i = 0; while i < 5 do i = i + 1 end; done_flag = true
\* once its run is over, has returned normally and left the global done_flag equal to true.
C4_Loop ==
  (run.source = StringSource(SrcLoop) /\ run.perm = IdentityPerm /\ Terminal) =>
     /\ run.phase = "finished"
     /\ getGlobal(run.G, "done_flag") = VTrue

\* a statement start that no rule of parseChunk or parseStatement recognizes
Unrecognized(t, i) ==
  /\ peek(t, i) \notin {UNDEF, "local", "function", "for", "return"}
  /\ ~(IsIdentToken(peek(t, i)) /\ peek(t, i + 1) \in {"=", "("})

\* a statement list without its noop nodes, in function bodies too
RECURSIVE WithoutNoops(_)
WithoutNoops(body) ==
  IF body = <<>> THEN <<>>
  ELSE IF Head(body).type = "noop" THEN WithoutNoops(Tail(body))
  ELSE IF Head(body).type = "function"
  THEN <<[Head(body) EXCEPT !.body = WithoutNoops(@)]>> \o WithoutNoops(Tail(body))
  ELSE <<Head(body)>> \o WithoutNoops(Tail(body))

\* C5: fault tolerance: for every token sequence the parser never makes an iteration that
\* consumes no token, it returns with all tokens consumed, a statement start that no rule
\* recognizes becomes one noop node and costs exactly one token, and noop nodes emit no
\* instruction (the builder's result is the one for the tree without them).
C5_FaultTolerance ==
  /\ prs.pc # "stuck" /\ ~prs.stuck
  /\ prs.iters > 0 => prs.i > prs.prev
  /\ prs.pc \in {"parsed", "built", "serialized"} => prs.i >= Len(prs.t)
  /\ (prs.iters > 0 /\ Unrecognized(prs.t, prs.prev)) =>
        (prs.last = <<NoopNode>> /\ prs.i = prs.prev + 1)
  /\ prs.pc \in {"built", "serialized"} =>
        /\ prs.builder = buildFromAst(NewBuilder,
                                      [type |-> "chunk", body |-> WithoutNoops(prs.body)])
        /\ prs.builder.code[Len(prs.builder.code)] = OPC["CLOSE"]

\* C5 witness: a sequence with an unmatched "end" and a stray symbol, ending in the middle
\* of a statement, was parsed, built and serialized.
C5_Witness ==
  /\ prs.pc = "serialized"
  /\ prs.t = <<"end", ")", "x", "=">>
  /\ prs.body = <<NoopNode, NoopNode, [type |-> "assign", name |-> "x", expr |-> NilNode]>>


\* the size asked for: opts.targetSizeBytes || DEFAULT_TARGET
AskedSize == targetOrDefault(run.opts.targetSizeBytes)

\* C6: size contract: the byte length of the artifact is the target when the target is at
\* least the byte length of the unpadded content, and is at least the byte length of the
\* unpadded content otherwise.
C6_SizeContract ==
  (run.phase \notin {"idle", "threw"} /\ AskedSize.k = "num") =>
     IF AskedSize.n >= run.artifact.content + run.artifact.extra
     THEN run.artifact.bytes = AskedSize.n
     ELSE run.artifact.bytes >= run.artifact.content + run.artifact.extra

\* the code of the frame that is running
FrameCode == IF F.kind = "top" THEN TopCode ELSE ChildCode

\* C7: call-failure containment: after a CALL whose callee is not a function, or whose
\* callee raised, the VM loop is still running, the next instruction is the one after the
\* CALL operand, and the value on top of the stack (what the next pop returns) is nil.
C7_CallFailure ==
  (run.perm = IdentityPerm /\ run.ev.op = "CALL" /\ run.ev.call \in {"notfunction", "raised"}) =>
     /\ run.phase = "running"
     /\ F.ip >= 3 /\ FrameCode[F.ip - 2] = OPS["CALL"]
     /\ popValue(F.stack) = VNil

\* C8: backpatch completeness of the while lowering: after buildFromAst, for every loop
\* the position written by the patch is the placeholder emitted with JZ, that placeholder
\* holds the position just after the loop's closing JMP, the operand of the closing JMP
\* holds the position where the condition starts, and both lie in 0..len(code).
C8_Backpatch ==
  bld.pc = "built" =>
    \A k \in 1..Len(bld.builder.patches) :
      LET p    == bld.builder.patches[k]
          code == bld.builder.code
      IN /\ p.written = p.placeholder
         /\ code[p.placeholder + 1] = p.end
         /\ code[p.placeholder] = OPC["JZ"]
         /\ code[p.end - 1] = OPC["JMP"] /\ code[p.end] = p.start
         /\ p.end \in 0..Len(code) /\ p.start \in 0..Len(code)

\* C9: parameter binding: in the frame that starts running the record of
\*   function f(a) return a end
\* for the call f(5), local slot k holds argument k.
C9_ParamBinding ==
  (run.source = StringSource(SrcParam) /\ run.perm = IdentityPerm
     /\ run.phase = "running" /\ run.ev.call = "entered") =>
     \A k \in 1..Len(run.ev.args) : getLocal(F.locals, k) = run.ev.args[k]

\* the arguments the call must reject
MustRaise ==
  \/ ~run.source.isString
  \/ run.opts.targetSizeBytes.k = "num" /\ run.opts.targetSizeBytes.n < MinTarget

\* C10: input validation: the call raises exactly when the source is not a string or
\* targetSizeBytes is a number below 128 (0 and negative numbers included); the XOR loader
\* variant raises in those cases too.
C10_Validation ==
  run.phase # "idle" =>
     /\ (run.phase = "threw") <=> MustRaise
     /\ MustRaise => run.xorThrew


\* the logical opcode the emitter wrote at each opcode position of a stream, and the
\* operands as they are: the sequence that is independent of the tag numbering
LogicalStream(code) ==
  [p \in 1..Len(code) |->
     IF p \in OpcodePositions(code, 1) THEN [op |-> LogicalOp(code[p])]
     ELSE [operand |-> code[p]]]

\* a serialized constant without the values that the random keys decide
NestedShape(c) == IF c.k = "enc" THEN [k |-> "enc"] ELSE c

ConstShape(c) ==
  CASE c.k = "enc" -> [k |-> "enc"]
    [] c.k = "fn" -> [k |-> "fn", names |-> c.v.names, code |-> LogicalStream(c.v.code),
                        consts |-> [j \in 1..Len(c.v.consts) |-> NestedShape(c.v.consts[j])]]
    [] OTHER -> c

ProgramShape(program) ==
  [code   |-> LogicalStream(program.code),
   names  |-> program.names,
   consts |-> [j \in 1..Len(program.consts) |-> ConstShape(program.consts[j])]]

\* C11: determinism of structure: two calls on the same source give serialized programs
\* whose instruction streams (top-level and nested) have the same length and the same
\* logical opcodes and operands, and whose name tables and constant pools have the same
\* length and order, whatever permutation and random keys each call draws.
C11_Determinism ==
  two.pc = "both" =>
     /\ ~two.a.threw /\ ~two.b.threw
     /\ two.a.builder = two.b.builder
     /\ ProgramShape(two.a.artifact.program) = ProgramShape(two.b.artifact.program)

\* C11 witness: the two calls drew different permutations and different keys, and the
\* program has a nested function record and a string constant.
C11_Witness ==
  /\ two.pc = "both"
  /\ two.permA # two.permB /\ two.rndA # two.rndB
  /\ two.a.artifact.program.consts # two.b.artifact.program.consts
  /\ \E j \in 1..Len(two.a.artifact.program.consts) : two.a.artifact.program.consts[j].k = "fn"

\* C12: call-scoped state: a call of obfuscateLua creates or writes no process-global
\* variable: the global object has no property permuteOps after the call, as before it.
C12_CallScoped ==
  run.phase # "idle" => run.permuteOps = IdleRun(run.source, run.opts, run.perm, run.rnd,
                                                 run.plen).permuteOps

\* a token that is a quoted string literal
IsQuoted(tk) == Len(tk) >= 2 /\ tk[1] = "\"" /\ tk[Len(tk)] = "\""

\* the source without the whitespace outside quoted string literals
RECURSIVE StripOutside(_, _)
StripOutside(src, q) ==
  IF q >= Len(src) THEN <<>>
  ELSE IF src[q + 1] = "\"" /\ ClosingQuote(src, q + 1) >= 0
  THEN SubSeq(src, q + 1, ClosingQuote(src, q + 1) + 1)
         \o StripOutside(src, ClosingQuote(src, q + 1) + 1)
  ELSE IF src[q + 1] \in LexSpaces THEN StripOutside(src, q + 1)
  ELSE <<src[q + 1]>> \o StripOutside(src, q + 1)

\* C13: whitespace is a separator, never a token: every token tokenize returns is
\* non-empty and has no space or line feed outside a quoted string literal, and the
\* tokens concatenated are the source without its inter-token whitespace.
C13_NoWhitespaceToken ==
  lex.pc = "returned" =>
     /\ \A k \in 1..Len(lex.out) :
           /\ lex.out[k] # <<>>
           /\ IsQuoted(lex.out[k]) \/ \A j \in 1..Len(lex.out[k]) : lex.out[k][j] \notin LexSpaces
     /\ Flatten(lex.out) = StripOutside(lex.src, 0)

\* C14: round trip of the single-key XOR family: for every source string and every key,
\* the emitted decode function applied to the emitted data array and key returns the
\* source string, code unit by code unit.
C14_XorRoundTrip == xr.pc = "decoded" => (xr.dec.ok /\ xr.dec.out = xr.s)

\* C15: the runner of nested function frames handles every opcode as the top-level runner
\* does: each dispatch in a nested frame executes one of the fifteen opcodes (or ends the
\* frame at the end of the code); none is skipped, and no operand is dispatched.
C15_NestedRunner ==
  (run.perm = IdentityPerm /\ run.ev.kind = "nested") =>
     run.ev.op \in DOMAIN OPC \cup {"end"}

\* the name a SET-GLOBAL at position p of the builder's code writes
SetGlobalName(b, p) == NameAt(b.names, b.code[p + 1] + 1)

\* C16: assignment to a local: in the code built for
\*   local i = 0; ... i = i + 1 ...
\* no SET-GLOBAL writes a name that has a local slot in the scope, and the assignment to i
\* is a SET-LOCAL of the slot of i.
C16_AssignLocal ==
  (run.source = StringSource(SrcLoop) /\ run.phase \notin {"idle", "threw"}) =>
     /\ \A p \in OpcodePositions(run.builder.code, 1) :
           run.builder.code[p] = OPC["SETG"] => ~InLocalSlots(run.builder, SetGlobalName(run.builder, p))
     /\ Cardinality({p \in OpcodePositions(run.builder.code, 1) :
                       run.builder.code[p] = OPC["SETL"]}) = 2

LuaKeywords == {"local", "function", "for", "end", "return"}

\* the names declared local by the statements of a body (identifiers, no keywords)
DeclaredLocals(body) ==
  {body[k].name : k \in {j \in 1..Len(body) :
                            /\ body[j].type \in {"local_decl", "local_assign"}
                            /\ IsIdentToken(body[j].name)
                            /\ body[j].name \notin LuaKeywords}}

\* C17: local slots in the top-level scope: every name declared local (with or without an
\* initializer) has a slot, the k-th name to get a slot has slot k - 1, no name has two
\* slots, and nextLocal is the number of slots.
C17_LocalSlots ==
  prs.pc \in {"built", "serialized"} =>
     /\ \A n \in DeclaredLocals(prs.body) :
           \E k \in 1..Len(prs.builder.localSlots) : prs.builder.localSlots[k][1] = n
     /\ \A k \in 1..Len(prs.builder.localSlots) : prs.builder.localSlots[k][2] = k - 1
     /\ \A j, k \in 1..Len(prs.builder.localSlots) :
           prs.builder.localSlots[j][1] = prs.builder.localSlots[k][1] => j = k
     /\ prs.builder.nextLocal = Len(prs.builder.localSlots)

\* some opcode position of the stream holds the opcode
HasOp(code, name) == \E p \in OpcodePositions(code, 1) : code[p] = OPC[name]

\* some SET-GLOBAL of the stream writes the name
WritesGlobal(code, names, nm) ==
  \E p \in OpcodePositions(code, 1) :
     code[p] = OPC["SETG"] /\ NameAt(names, code[p + 1] + 1) = nm

\* the function record the builder made for the first function of the program
FirstFunction(b) ==
  b.consts[CHOOSE k \in 1..Len(b.consts) :
             b.consts[k].k = "fn" /\ \A j \in 1..(k - 1) : b.consts[j].k # "fn"].v

\* C18: a local declaration inside a function body: the record built for
\*   function f() local x = 1 end
\* holds a SET-LOCAL for x and no SET-GLOBAL that writes the name x.
C18_LocalInFunction ==
  (run.source = StringSource(SrcLocalFn) /\ run.phase \notin {"idle", "threw"}) =>
     /\ HasOp(FirstFunction(run.builder).code, "SETL")
     /\ ~WritesGlobal(FirstFunction(run.builder).code, FirstFunction(run.builder).names, "x")

\* the code that holds the statements of the for loop of the program
ForCode == IF run.source = StringSource(SrcFor) THEN run.builder.code
           ELSE FirstFunction(run.builder).code

ForNames == IF run.source = StringSource(SrcFor) THEN run.builder.names
            ELSE FirstFunction(run.builder).names

\* C19: numeric for: the code built for  for i = 1, 3 do x = i end  (at the top level and
\* inside a function body) initializes a local slot (SET-LOCAL), holds a conditional loop
\* (JUMP-IF-FALSE and a backward JUMP), and has no SET-GLOBAL that writes the name i.
C19_NumericFor ==
  (run.source \in {StringSource(SrcFor), StringSource(SrcForFn)}
     /\ run.phase \notin {"idle", "threw"}) =>
     /\ HasOp(ForCode, "SETL") /\ HasOp(ForCode, "JZ") /\ HasOp(ForCode, "JMP")
     /\ ~WritesGlobal(ForCode, ForNames, "i")

\* C20: precedence and associativity: the program
\*   x = 6 / 2 * 3 - 1   y = x .. 1
\* ends normally with x = (6 / 2) * 3 - 1 = 8 and y = "81", the value of the reference
\* grammar (multiplicative over additive over concatenation, each level to the left).
C20_Precedence ==
  (run.source = StringSource(SrcArith) /\ Terminal) =>
     /\ run.phase = "finished"
     /\ getGlobal(run.G, "x") = VNum(8)
     /\ getGlobal(run.G, "y") = VStr(<<56, 49>>)

\* the serialized constant s stands for the builder constant c: nil and numbers unchanged,
\* a string as encrypted chunks, a function record as a record with the same code, the
\* same names and constants that stand for its constants
RECURSIVE SerializedAs(_, _)
SerializedAs(c, s) ==
  CASE c.k = "nil" -> s = KNil
    [] c.k = "num" -> s = c
    [] c.k = "str" -> s.k = "enc"
    [] c.k = "fn" ->
         /\ s.k = "fn"
         /\ s.v.code = c.v.code
         /\ s.v.names = [j \in 1..Len(c.v.names) |-> nameText(c.v.names[j])]
         /\ Len(s.v.consts) = Len(c.v.consts)
         /\ \A j \in 1..Len(c.v.consts) : SerializedAs(c.v.consts[j], s.v.consts[j])

\* C21: serializeProgram is recursive over function records: every constant of the
\* serialized program stands for the builder's constant at the same index, at every
\* nesting depth (no function record is replaced by nil, no string stays plaintext).
C21_RecursiveSerialize ==
  bld.pc = "serialized" =>
     /\ Len(bld.program.consts) = Len(bld.builder.consts)
     /\ \A j \in 1..Len(bld.builder.consts) :
           SerializedAs(bld.builder.consts[j], bld.program.consts[j])

\* C22: frame restoration: when a call of a compiled function has come back to the calling
\* frame (it returned, or it raised and the caller's pcall caught the error), RCONST and
\* PROGRAM are the tables of the calling frame (0: the top-level tables).
C22_FrameRestored ==
  (run.perm = IdentityPerm /\ run.phase = "running"
     /\ run.ev.call \in {"returned", "raised"}) =>
     (run.rc = F.child /\ run.prog = F.child)

\* the function record buildFromAst makes for a function with the given body
RecordOf(body) == buildFromAst(NewBuilder, AstChunk(<<AstFunction("f", <<>>, body)>>)).consts[1]

\* values given to addConst: nil, the number 1, the string "1", a number that is not
\* finite, and three function records
ConstValues ==
  {KNil, KNum(1), KStr(<<49>>), KNum(Infinity),
   RecordOf(<<AstReturn([type |-> "nil"])>>),
   RecordOf(<<AstReturn(AstNumber(Infinity))>>),
   RecordOf(<<AstReturn(AstNumber(1))>>)}

NameValues == {"x", "print", "f", "g", "i"}

\* no two entries of the sequence are equal
NoDuplicates(seq) == \A i, j \in 1..Len(seq) : seq[i] = seq[j] => i = j

\* addConst(v) on builder b gave r: the index denotes v and the pool was only appended to
ConstAdded(b, v, r) ==
  /\ r.idx \in 0..(Len(r.b.consts) - 1)
  /\ r.b.consts[r.idx + 1] = v
  /\ SubSeq(r.b.consts, 1, Len(b.consts)) = b.consts
  /\ NoDuplicates(r.b.consts)

\* addName(n) on builder b gave r: the index denotes n and the table was only appended to
NameAdded(b, n, r) ==
  /\ r.idx \in 0..(Len(r.b.names) - 1)
  /\ r.b.names[r.idx + 1] = n
  /\ SubSeq(r.b.names, 1, Len(b.names)) = b.names
  /\ NoDuplicates(r.b.names)

\* C23: deduplication: the pool and the name table of a built program hold no two equal
\* entries, and one more addConst(v) / addName(n) returns an index that denotes v / n,
\* leaves the earlier entries in place and adds no duplicate; values of different types
\* are never merged.
C23_Dedup ==
  bld.pc = "built" =>
     /\ NoDuplicates(bld.builder.consts) /\ NoDuplicates(bld.builder.names)
     /\ \A v \in ConstValues : ConstAdded(bld.builder, v, addConst(bld.builder, v))
     /\ \A n \in NameValues : NameAdded(bld.builder, n, addName(bld.builder, n))

\* C24: the opcode mapping is a bijection: each of the 15 logical opcodes has exactly one
\* tag, no two logical opcodes have the same tag, and the tags are the values of OPC.
C24_Bijection ==
  pm.pc = "mapped" =>
     /\ DOMAIN pm.mapping = DOMAIN OPC
     /\ Cardinality(DOMAIN pm.mapping) = 15
     /\ \A a, b \in DOMAIN pm.mapping : pm.mapping[a] = pm.mapping[b] => a = b
     /\ {pm.mapping[k] : k \in DOMAIN pm.mapping} = {OPC[k] : k \in DOMAIN OPC}

\* a mapping was built from a shuffle that moved three elements
C24_Witness == pm.pc = "mapped" /\ pm.moves = 3 /\ pm.mapping # OPC

\* C25: fragment termination: every fragment ensureTerminator returned ends with a
\* semicolon (so two adjacent fragments are separated by one in the joined text), and
\* ensureTerminator applied to its own result changes nothing.
C25_Terminated ==
  fr.pc \in {"safe", "joined", "built"} =>
     \A k \in 1..Len(fr.safe) :
        /\ fr.safe[k] # <<>> /\ fr.safe[k][Len(fr.safe[k])] = ";"
        /\ ensureTerminator(fr.safe[k]) = fr.safe[k]

\* C26: single-line mode: once every line break was replaced, the text holds no line
\* break and the statements outside comments are those that were outside comments before.
C26_SingleLine ==
  (ln.pc = "collapsed" /\ ln.oneSided) =>
     /\ \A i \in 1..Len(ln.out) : ln.out[i] # "\n"
     /\ statementChars(luaCode(ln.out, FALSE)) = statementChars(luaCode(ln.lua, FALSE))

\* C27: token store: a /source request is served only for a token that /generate stored
\* and whose expiry (issue time + 2 minutes) has not passed; serving removes the token, so
\* a token is served at most once per /generate; a rejected request leaves the store as
\* it found it.
C27_TokenStore ==
  /\ srv.last.kind = "served" =>
       /\ srv.last.token \in DOMAIN srv.last.before
       /\ srv.issued[srv.last.token] >= 1
       /\ srv.last.before[srv.last.token] = srv.issuedAt[srv.last.token] + TTL
       /\ srv.last.at <= srv.issuedAt[srv.last.token] + TTL
       /\ srv.last.token \notin DOMAIN srv.tokens
  /\ srv.last.kind = "rejected" => srv.tokens = srv.last.before
  /\ srv.pc = "listening" => \A t \in TokenValues : srv.served[t] <= srv.issued[t]

\* a token that was served once is asked for again before its expiry, and rejected
C27_Witness ==
  /\ srv.last.kind = "rejected" /\ srv.last.token \in TokenValues
  /\ srv.served[srv.last.token] = 1 /\ srv.issued[srv.last.token] = 1
  /\ srv.last.at <= srv.issuedAt[srv.last.token] + TTL

\* C28: local operand integrity: every GET-LOCAL / SET-LOCAL operand of the built code is
\* a slot number of the scope, 0..nextLocal-1 (so a name that was never declared local is
\* not compiled as a local access).
C28_LocalOperands ==
  bld.pc = "built" =>
     \A p \in OpcodePositions(bld.builder.code, 1) :
        bld.builder.code[p] \in {OPC["GETL"], OPC["SETL"]} =>
           bld.builder.code[p + 1] \in 0..(bld.builder.nextLocal - 1)

\* the number of places of the sequence that hold v
CountOf(seq, v) == Cardinality({i \in 1..Len(seq) : seq[i] = v})

\* the two sequences hold the same bytes, each as many times
SameBytes(a, b) ==
  Len(a) = Len(b) /\ \A v \in Range(a) \cup Range(b) : CountOf(a, v) = CountOf(b, v)

\* the number of input bytes before chunk k
RECURSIVE ChunkStart(_, _)
ChunkStart(chunks, k) ==
  IF k <= 1 THEN 0 ELSE ChunkStart(chunks, k - 1) + Len(chunks[k - 1].data)

\* the transformed bytes of the slice of the input that chunk c stands for
TransformedSlice(bytes, start, c) ==
  [x \in 1..Len(c.data) |->
     IF start + x <= Len(bytes) THEN rotl8(BitAnd(bytes[start + x] + c.a, 255), c.b) ELSE 0 - 1]

\* C29: chunk partition: the chunks of encryptConstantString are non-empty, at most 32
\* bytes long, their lengths sum to the length of the input, and chunk k holds exactly
\* the transformed bytes of the k-th contiguous slice; the empty string has no chunk.
C29_ChunkPartition ==
  enc.pc \in {"encrypted", "decoded"} =>
     /\ \A k \in 1..Len(enc.chunks) : Len(enc.chunks[k].data) \in 1..32
     /\ ChunkStart(enc.chunks, Len(enc.chunks) + 1) = Len(enc.s)
     /\ \A k \in 1..Len(enc.chunks) :
           SameBytes(enc.chunks[k].data,
                     TransformedSlice(toBytes(enc.s), ChunkStart(enc.chunks, k), enc.chunks[k]))
     /\ (enc.s = <<>> => enc.chunks = <<>>)

\* a 70-byte string was split into chunks of 32, 32 and 6 bytes
C29_Witness ==
  /\ enc.pc = "encrypted" /\ Len(enc.s) = 70 /\ Len(enc.chunks) = 3
  /\ Len(enc.chunks[1].data) = 32 /\ Len(enc.chunks[3].data) = 6
  /\ enc.chunks[1].data # TransformedSlice(toBytes(enc.s), 0, enc.chunks[1])

\* the byte v after add keyA and rotate-left keyB
Forward(v, keyA, keyB) == rotl8(BitAnd(v + keyA, 255), keyB)

\* the whole chain on v: every intermediate value is a byte and the result is v
ChainInverts(v, keyA, keyB, t) ==
  /\ BitAnd(v + keyA, 255) \in 0..255
  /\ t \in 0..255
  /\ fn_rotr(t, keyB) \in 0..255
  /\ fn_sub(fn_rotr(t, keyB), keyA) = v

\* C30: add/rotate inversion: for every byte, every keyA in 1..254 and every keyB in 1..7,
\* fn_sub(fn_rotr(rotl8((v + keyA) mod 256, keyB), keyB), keyA) = v and every intermediate
\* value is a byte.
C30_RotateInverts ==
  /\ rot.pc # "idle" => rot.x \in 0..255
  /\ rot.pc = "restored" =>
       /\ rot.x = rot.v
       /\ \A keyA \in KeyARange : ChainInverts(rot.v, keyA, rot.keyB, Forward(rot.v, keyA, rot.keyB))

\* a byte whose addition wrapped and whose rotation moved bits around the end was restored
C30_Witness ==
  /\ rot.pc = "restored" /\ rot.v = 255 /\ rot.keyA = 254 /\ rot.keyB = 7 /\ rot.x = 255
=============================================================================
